---- MODULE Spec2Model ----
(***************************************************************************)
(* Webhook ingestion and ticket reconciliation of the robocall service     *)
(* (src/app.js): signature verification of POST /webhook/elevenlabs/       *)
(* postcall, create_robocall_ticket, generateUniqueTicketNumber, manual    *)
(* ticket creation and status update on the robocall_tickets record set.   *)
(*                                                                         *)
(* A request handler is an async function: everything between two awaits   *)
(* runs without interleaving, and each awaited store operation takes       *)
(* effect atomically.  One action of the model is therefore the code from  *)
(* one await to the next, together with the store operation it awaits.     *)
(***************************************************************************)
EXTENDS Integers, Sequences, FiniteSets, TLC

VARIABLES
    robocall_tickets,           \* the robocall_tickets collection, in insertion (_id) order
    postcall_transcriptions,    \* the postcall_transcriptions collection (raw event log)
    clock,                      \* Date.now(), in milliseconds
    pc,                         \* per request: where its handler stands
    kind,                       \* per request: which endpoint it addresses
    req,                        \* per request: what was received
    loc,                        \* per request: the handler's local variables
    last,                       \* the request answered last, and the HTTP status sent
    arrived,                    \* number of requests received so far
    tickets                     \* the tickets collection, in insertion (_id) order

vars == <<robocall_tickets, postcall_transcriptions, clock, pc, kind, req, loc, last, arrived,
          tickets>>

----------------------------------------------------------------------------
(* Bounds of the model *)

MaxRequests == 2        \* requests received in one behaviour
MaxHandlers == 2        \* requests in flight at the same time
MaxTicks == 1           \* times the clock advances in one behaviour
MaxApiRequests == 3     \* requests received in one behaviour of the ticket routes
MaxLifecycleRequests == 4   \* requests received in one behaviour of a single key

\* A handler slot serves one request at a time; "request r" below is the
\* request that slot r is serving or has served last.
Reqs == 1..MaxHandlers

(* Program constants *)

maxTries == 5                   \* app.js:647
ToleranceMs == 1800000          \* app.js:1061, 30 * 60 * 1000
StartMs == 2000000500           \* the clock when the service starts
TickMs == 500                   \* one advance of the clock

----------------------------------------------------------------------------
(* JavaScript values.  undefined and null are kept apart from the empty    *)
(* string; numbers use -1 for null/undefined.                              *)

Undef == "undefined"
Null == "null"
NoNum == -1

FalsyStr(v) == v \in {Undef, Null, ""}
FalsyNum(n) == n \in {NoNum, 0}

\* a || b on strings and on numbers
OrStr(a, b) == IF FalsyStr(a) THEN b ELSE a
OrNum(a, b) == IF FalsyNum(a) THEN b ELSE a

Floor1000(ms) == ms \div 1000

----------------------------------------------------------------------------
(* Event payloads.  An event carries its fields at the top level or under  *)
(* a data key.                                                             *)

NoTranscript == [isArray |-> FALSE, turns |-> <<>>]
NoMetadata == [present |-> FALSE, start_time_unix_secs |-> NoNum,
               accepted_time_unix_secs |-> NoNum]
NoAnalysis == [present |-> FALSE, dcr |-> FALSE, subject |-> Undef, category |-> Undef,
               customer_name |-> Undef, priority |-> Undef]

NoFields == [agent_id |-> Undef, conversation_id |-> Undef, status |-> Undef,
             user_id |-> Undef, transcript |-> NoTranscript, metadata |-> NoMetadata,
             analysis |-> NoAnalysis]

Turn(role, message, secs, extra) ==
    [role |-> role, message |-> message, time_in_call_secs |-> secs,
     interrupted |-> "false", extra |-> extra]

Fields(agent, conv, subj, cat, cust, prio, start, msg) ==
    [agent_id |-> agent, conversation_id |-> conv, status |-> "done", user_id |-> cust,
     transcript |-> [isArray |-> TRUE, turns |-> <<Turn("agent", msg, 0, "tool_calls")>>],
     metadata |-> [present |-> TRUE, start_time_unix_secs |-> start,
                   accepted_time_unix_secs |-> NoNum],
     analysis |-> [present |-> TRUE, dcr |-> TRUE, subject |-> subj, category |-> cat,
                   customer_name |-> cust, priority |-> prio]]

Wrapped(type, f) == [type |-> type, hasData |-> TRUE, data |-> f, top |-> NoFields]
Flat(type, f) == [type |-> type, hasData |-> FALSE, data |-> NoFields, top |-> f]

Transcription == "post_call_transcription"

\* The parsed events the model delivers, by the index their body carries.
EventTable ==
    <<  \* 1, 2: one key, two different payloads
        Wrapped(Transcription, Fields("agent1", "conv1", "s1", "c1", "n1", "high", 1700, "hi")),
        Wrapped(Transcription, Fields("agent1", "conv1", "s2", "c2", "n2", "mid", 1800, "yo")),
        \* 3: the same key, no start time and no collected data
        Flat(Transcription, [NoFields EXCEPT !.agent_id = "agent1", !.conversation_id = "conv1"]),
        \* 4: another key
        Flat(Transcription, Fields("agent2", "conv2", "s4", "c4", "n4", "", 0, "ok")),
        \* 5: an event type the webhook ignores
        Wrapped("post_call_audio", Fields("agent1", "conv1", "s5", "c5", "n5", "low", 1900, "")),
        \* 6: an event type nobody knows
        Flat("unknown_type", Fields("agent1", "conv1", "s6", "c6", "n6", "low", 1900, ""))
    >>

EventIds == DOMAIN EventTable

\* a reconciler that reads the top level only
DataOfTop(event) == event.top

\* const data = event.data || event
DataOf(event) == IF event.hasData THEN event.data ELSE event.top

----------------------------------------------------------------------------
(* TranscriptNormalizer: the part of create_robocall_ticket before the     *)
(* lookup (app.js:830-866).                                                *)

\* a turn stored as received
CleanTurnWhole(turn) == turn

CleanTurn(turn) ==
    [role |-> turn.role, message |-> turn.message,
     time_in_call_secs |-> turn.time_in_call_secs, interrupted |-> turn.interrupted]

cleanTranscript(transcript) ==
    IF ~transcript.isArray THEN <<>>
    ELSE [i \in DOMAIN transcript.turns |-> CleanTurn(transcript.turns[i])]

\* fields copied without defaults
AnalysisFieldsCopied(data) ==
    [subject |-> data.analysis.subject, category |-> data.analysis.category,
     customer_name |-> data.analysis.customer_name, priority |-> data.analysis.priority]

\* subject, category, customer_name, priority (app.js:833-840)
AnalysisFields(data) ==
    IF data.analysis.present /\ data.analysis.dcr
    THEN [subject |-> OrStr(data.analysis.subject, ""),
          category |-> OrStr(data.analysis.category, ""),
          customer_name |-> OrStr(data.analysis.customer_name, ""),
          priority |-> OrStr(data.analysis.priority, "low")]
    ELSE [subject |-> "", category |-> "", customer_name |-> "", priority |-> "low"]

\* the start time whatever else is there
EventTimestampStart(data, nowMs) == data.metadata.start_time_unix_secs

\* app.js:844
EventTimestamp(data, nowMs) ==
    OrNum(OrNum(data.metadata.start_time_unix_secs, data.metadata.accepted_time_unix_secs),
          Floor1000(nowMs))

\* app.js:854-866
CallTranscription(data, nowMs) ==
    [minimal |-> FALSE,
     event_timestamp |-> EventTimestamp(data, nowMs),
     data |-> [agent_id |-> data.agent_id,
               conversation_id |-> data.conversation_id,
               status |-> data.status,
               user_id |-> data.user_id,
               transcript |-> cleanTranscript(data.transcript),
               metadata |-> data.metadata,
               analysis |-> data.analysis,
               received_at |-> nowMs]]

\* call_transcription of a manually created ticket (app.js:984-989): the two
\* identifying fields and nothing else
MinimalCallTranscription(agent, conv) ==
    [minimal |-> TRUE,
     event_timestamp |-> NoNum,
     data |-> [agent_id |-> agent, conversation_id |-> conv, status |-> Undef,
               user_id |-> Undef, transcript |-> <<>>, metadata |-> NoMetadata,
               analysis |-> NoAnalysis, received_at |-> NoNum]]

\* everything create_robocall_ticket derives from the event before it looks up
Normalize(event, nowMs) ==
    LET data == DataOf(event)
        a == AnalysisFields(data)
    IN [subject |-> a.subject, category |-> a.category,
        customer_name |-> a.customer_name, priority |-> a.priority,
        call_transcription |-> CallTranscription(data, nowMs),
        now |-> nowMs]

----------------------------------------------------------------------------
(* The record set: find/update-by-filter and insert.                       *)

Indices(coll) == DOMAIN coll

\* findOne: the first document, in insertion order, among those that match
\* (0: null)
First(matching) ==
    IF matching = {} THEN 0
    ELSE CHOOSE i \in matching : \A j \in matching : i <= j

\* a lookup that takes the first ticket, whatever its key
FindByKeyFirst(coll, agent, conv) == IF Len(coll) = 0 THEN 0 ELSE 1

\* robocallTicketsCollection.findOne with the filter of app.js:869-872
FindByKey(coll, agent, conv) ==
    First({ i \in DOMAIN coll :
              /\ coll[i].call_transcription.data.agent_id = agent
              /\ coll[i].call_transcription.data.conversation_id = conv })

\* a lookup that queries another, empty collection
FindByNumberElsewhere(coll, number) ==
    LET ticketsCollection == <<>>
    IN First({ i \in DOMAIN ticketsCollection : coll[i].ticket_number = number })

\* collection.findOne({ ticket_number }), app.js:650
FindByNumber(coll, number) ==
    First({ i \in DOMAIN coll : coll[i].ticket_number = number })

\* the ticket numbers the model lets Math.random draw (app.js:649): six
\* characters of the alphabet each
DrawOutcomes ==
    { <<"A", "B", "C", "1", "2", "3">>, <<"Z", "Z", "Z", "9", "9", "9">> }

----------------------------------------------------------------------------
(* SignatureVerifier: POST /webhook/elevenlabs/postcall up to the parsed   *)
(* event (app.js:1041-1087).                                               *)
(*                                                                         *)
(* A body is a sequence of bytes.  A signature header is a sequence of     *)
(* comma-separated components; a component is its prefix ("t=", "v0=" or   *)
(* something else) and what follows it: a timestamp text, or a digest.     *)
(* HMAC-SHA256 is taken to be collision free: a digest is the key and the  *)
(* message it was computed over.                                           *)

TsNum(secs) == [kind |-> "num", secs |-> secs]      \* decimal digits
TsNaN == [kind |-> "nan", secs |-> 0]               \* text that is no number
TsEmpty == [kind |-> "empty", secs |-> 0]           \* nothing after "t="
TsUndef == [kind |-> "undef", secs |-> 0]           \* no "t=" component

Hmac(key, ts, bytes) == [key |-> key, ts |-> ts, msg |-> bytes]
NoDigest == Hmac("", TsUndef, <<>>)

TPart(ts) == [prefix |-> "t=", ts |-> ts, mac |-> NoDigest]
V0Part(mac) == [prefix |-> "v0=", ts |-> TsUndef, mac |-> mac]
OtherPart == [prefix |-> "x=", ts |-> TsUndef, mac |-> NoDigest]

ReplacementChar == 65533        \* U+FFFD
Utf8Replacement == <<239, 191, 189>>    \* U+FFFD in UTF-8

RECURSIVE Utf8Decode(_)
\* Buffer.toString("utf-8"), app.js:1069: ASCII bytes decode to themselves,
\* EF BF BD to U+FFFD, and a byte that starts no valid sequence to U+FFFD.
Utf8Decode(bytes) ==
    IF bytes = <<>> THEN <<>>
    ELSE IF Head(bytes) < 128 THEN <<Head(bytes)>> \o Utf8Decode(Tail(bytes))
    ELSE IF Len(bytes) >= 3 /\ SubSeq(bytes, 1, 3) = Utf8Replacement
         THEN <<ReplacementChar>> \o Utf8Decode(SubSeq(bytes, 4, Len(bytes)))
    ELSE <<ReplacementChar>> \o Utf8Decode(Tail(bytes))

RECURSIVE Utf8Encode(_)
\* the bytes createHmac(..).update(message) hashes for a string, app.js:1075
Utf8Encode(text) ==
    IF text = <<>> THEN <<>>
    ELSE (IF Head(text) = ReplacementChar THEN Utf8Replacement ELSE <<Head(text)>>)
         \o Utf8Encode(Tail(text))

\* headers.find((e) => e.startsWith("t="))?.substring(2), app.js:1053
TimestampOf(parts) ==
    LET at == First({ i \in DOMAIN parts : parts[i].prefix = "t=" })
    IN IF at = 0 THEN TsUndef ELSE parts[at].ts

\* a signature lookup that takes the last component, whatever it starts with
SignatureAtLast(parts) == Len(parts)

\* headers.find((e) => e.startsWith("v0=")), app.js:1054 (0: undefined)
SignatureAt(parts) == First({ i \in DOMAIN parts : parts[i].prefix = "v0=" })

\* an expiry test that also rejects a timestamp exactly 30 minutes old
ExpiredInclusive(ts, nowMs) == ts.kind = "num" /\ ts.secs * 1000 <= nowMs - ToleranceMs

\* reqTimestamp < tolerance, app.js:1060-1062; Number() of a text that is no
\* number is NaN, and NaN compares false
Expired(ts, nowMs) == ts.kind = "num" /\ ts.secs * 1000 < nowMs - ToleranceMs

\* digest over `${timestamp}.${bodyString}`, app.js:1069-1075
Digest(secret, ts, body) == Hmac(secret, ts, Utf8Encode(Utf8Decode(body)))

\* JSON.parse(bodyString), app.js:1083.  The texts that parse are "{" c "}"
\* and "{" c U+FFFD "}" with c the digit of an event of EventTable: c stands
\* for the members of the object, U+FFFD for a character inside one of its
\* strings that no field the service reads.  0: SyntaxError.
OpenBrace == 123
CloseBrace == 125
Digit0 == 48

JsonParse(text) ==
    IF /\ Len(text) \in {3, 4}
       /\ text[1] = OpenBrace
       /\ text[Len(text)] = CloseBrace
       /\ text[2] - Digit0 \in EventIds
       /\ Len(text) = 4 => text[3] = ReplacementChar
    THEN text[2] - Digit0
    ELSE 0

\* checks that let an event of any type go on to be stored
VerifyAnyType(request, nowMs) ==
    LET parts == request.header.parts
        timestamp == TimestampOf(parts)
        sigAt == SignatureAt(parts)
        parsed == JsonParse(Utf8Decode(request.body))
    IN  IF request.secret = "" THEN [status |-> 500, event |-> 0]
        ELSE IF ~request.header.present THEN [status |-> 401, event |-> 0]
        ELSE IF timestamp.kind \in {"undef", "empty"} \/ sigAt = 0
             THEN [status |-> 401, event |-> 0]
        ELSE IF Expired(timestamp, nowMs) THEN [status |-> 403, event |-> 0]
        ELSE IF parts[sigAt].mac # Digest(request.secret, timestamp, request.body)
             THEN [status |-> 401, event |-> 0]
        ELSE IF parsed = 0 THEN [status |-> 400, event |-> 0]
        ELSE [status |-> 0, event |-> parsed]

\* checks with the digest compared before the timestamp is validated
VerifyDigestBeforeExpiry(request, nowMs) ==
    LET parts == request.header.parts
        timestamp == TimestampOf(parts)
        sigAt == SignatureAt(parts)
        parsed == JsonParse(Utf8Decode(request.body))
    IN  IF request.secret = "" THEN [status |-> 500, event |-> 0]
        ELSE IF ~request.header.present THEN [status |-> 401, event |-> 0]
        ELSE IF timestamp.kind \in {"undef", "empty"} \/ sigAt = 0
             THEN [status |-> 401, event |-> 0]
        ELSE IF parts[sigAt].mac # Digest(request.secret, timestamp, request.body)
             THEN [status |-> 401, event |-> 0]
        ELSE IF Expired(timestamp, nowMs) THEN [status |-> 403, event |-> 0]
        ELSE IF parsed = 0 THEN [status |-> 400, event |-> 0]
        ELSE IF EventTable[parsed].type # Transcription
             THEN [status |-> 200, event |-> parsed]
        ELSE [status |-> 0, event |-> parsed]

\* The outcome of the checks the handler makes before it touches a store:
\* the status it answers with (0: none, the event goes on to be stored) and
\* the parsed event (0: none).
Verify(request, nowMs) ==
    LET parts == request.header.parts
        timestamp == TimestampOf(parts)
        sigAt == SignatureAt(parts)
        parsed == JsonParse(Utf8Decode(request.body))
    IN  IF request.secret = "" THEN [status |-> 500, event |-> 0]
        ELSE IF ~request.header.present THEN [status |-> 401, event |-> 0]
        ELSE IF timestamp.kind \in {"undef", "empty"} \/ sigAt = 0
             THEN [status |-> 401, event |-> 0]
        ELSE IF Expired(timestamp, nowMs) THEN [status |-> 403, event |-> 0]
        ELSE IF parts[sigAt].mac # Digest(request.secret, timestamp, request.body)
             THEN [status |-> 401, event |-> 0]
        ELSE IF parsed = 0 THEN [status |-> 400, event |-> 0]
        ELSE IF EventTable[parsed].type # Transcription
             THEN [status |-> 200, event |-> parsed]
        ELSE [status |-> 0, event |-> parsed]

----------------------------------------------------------------------------
(* Tickets of robocall_tickets.  A ticket's _id is its position in the     *)
(* collection: documents are never deleted.                                *)

NoTime == NoNum
NoNumber == <<>>            \* no ticket_number / no agent_id text

\* a ticketDoc that materialises the new ticket as open
TicketDocOpen(ticket_number, norm) ==
    [ticket_number |-> ticket_number,
     ticket_status |-> "open",
     subject |-> norm.subject,
     category |-> norm.category,
     customer_name |-> norm.customer_name,
     priority |-> norm.priority,
     eval |-> Null,
     call_transcription |-> norm.call_transcription,
     agent_id |-> NoNumber,
     created_at |-> NoTime,
     updated_at |-> NoTime]

\* ticketDoc of create_robocall_ticket, app.js:896-905
TicketDoc(ticket_number, norm) ==
    [ticket_number |-> ticket_number,
     ticket_status |-> "closed",
     subject |-> norm.subject,
     category |-> norm.category,
     customer_name |-> norm.customer_name,
     priority |-> norm.priority,
     eval |-> Null,
     call_transcription |-> norm.call_transcription,
     agent_id |-> NoNumber,
     created_at |-> NoTime,
     updated_at |-> NoTime]

\* an update whose updateFields leave out category
UpdateFieldsPartial(ticket, norm) ==
    [ticket EXCEPT !.subject = norm.subject,
                   !.customer_name = norm.customer_name,
                   !.priority = norm.priority,
                   !.call_transcription = norm.call_transcription,
                   !.ticket_status = "closed",
                   !.eval = Null,
                   !.updated_at = norm.now]

\* an update whose updateFields leave out ticket_status
UpdateFieldsKeepStatus(ticket, norm) ==
    [ticket EXCEPT !.subject = norm.subject,
                   !.category = norm.category,
                   !.customer_name = norm.customer_name,
                   !.priority = norm.priority,
                   !.call_transcription = norm.call_transcription,
                   !.eval = Null,
                   !.updated_at = norm.now]

\* an update whose updateFields leave out eval
UpdateFieldsKeepEval(ticket, norm) ==
    [ticket EXCEPT !.subject = norm.subject,
                   !.category = norm.category,
                   !.customer_name = norm.customer_name,
                   !.priority = norm.priority,
                   !.call_transcription = norm.call_transcription,
                   !.ticket_status = "closed",
                   !.updated_at = norm.now]

\* an update that replaces the document by updateFields instead of setting
\* them: the ticket_number is gone
UpdateFieldsReplace(ticket, norm) ==
    [TicketDoc(NoNumber, norm) EXCEPT !.updated_at = norm.now]

\* { $set: updateFields } applied to the existing ticket, app.js:876-889
UpdateFields(ticket, norm) ==
    [ticket EXCEPT !.subject = norm.subject,
                   !.category = norm.category,
                   !.customer_name = norm.customer_name,
                   !.priority = norm.priority,
                   !.call_transcription = norm.call_transcription,
                   !.ticket_status = "closed",
                   !.eval = Null,
                   !.updated_at = norm.now]

\* a ticketDoc that takes priority from the request without a default
ManualTicketDocNoDefault(ticket_number, body, nowMs) ==
    [ticket_number |-> ticket_number,
     ticket_status |-> "open",
     subject |-> body.subject,
     category |-> OrStr(body.category, ""),
     customer_name |-> OrStr(body.customer_name, ""),
     priority |-> body.priority,
     eval |-> Undef,
     call_transcription |-> MinimalCallTranscription(body.agent_id, body.conversation_id),
     agent_id |-> NoNumber,
     created_at |-> nowMs,
     updated_at |-> NoTime]

\* ticketDoc of POST /webhook/robocall-ticket, app.js:984-1000
ManualTicketDoc(ticket_number, body, nowMs) ==
    [ticket_number |-> ticket_number,
     ticket_status |-> "open",
     subject |-> body.subject,
     category |-> OrStr(body.category, ""),
     customer_name |-> OrStr(body.customer_name, ""),
     priority |-> OrStr(body.priority, "low"),
     eval |-> Undef,
     call_transcription |-> MinimalCallTranscription(body.agent_id, body.conversation_id),
     agent_id |-> NoNumber,
     created_at |-> nowMs,
     updated_at |-> NoTime]

\* a status update that also puts the ticket back to pending evaluation
SetStatusClearEval(ticket, ticket_status, nowMs) ==
    [ticket EXCEPT !.ticket_status = ticket_status, !.eval = Null, !.updated_at = nowMs]

\* { $set: { ticket_status, updated_at: new Date() } }, app.js:930
SetStatus(ticket, ticket_status, nowMs) ==
    [ticket EXCEPT !.ticket_status = ticket_status, !.updated_at = nowMs]

\* the characters \s matches, of those the model sends
Whitespace == {" ", "\t", "\n"}

\* a replace without the g flag: only the first run of whitespace goes
StripFirstSpaces(text) ==
    LET at == First({ i \in DOMAIN text : text[i] \in Whitespace })
        after == First({ i \in DOMAIN text : i > at /\ text[i] \notin Whitespace })
    IN IF at = 0 THEN text
       ELSE IF after = 0 THEN SubSeq(text, 1, at - 1)
       ELSE SubSeq(text, 1, at - 1) \o SubSeq(text, after, Len(text))

\* String.replace(/\s+/g, ""), app.js:923-924
StripSpaces(text) == SelectSeq(text, LAMBDA c : c \notin Whitespace)

\* the filter of the status update, app.js:926-927 (0: nothing matched)
FindForStatus(coll, ticket_number, agent_id) ==
    First({ i \in DOMAIN coll :
              /\ coll[i].ticket_number = ticket_number
              /\ agent_id # NoNumber => coll[i].agent_id = agent_id })

----------------------------------------------------------------------------
(* Handlers.  pc: "idle" (the slot serves no request), "reconcile",        *)
(* "update", "generate", "insert".  A handler that answers its request     *)
(* leaves what it served in last and frees its slot.                       *)

NoNorm == Normalize(Flat("", NoFields), NoTime)
NoLoc == [event |-> 0, norm |-> NoNorm, existing |-> 0, ticket_number |-> NoNumber,
          exists |-> FALSE, tries |-> 0, stored |-> FALSE, threw |-> FALSE]
NoReq == [none |-> TRUE]
\* a response without a body the model looks at
NoBody == <<>>
NoLast == [kind |-> "none", req |-> NoReq, status |-> 0, loc |-> NoLoc, body |-> NoBody]

Init ==
    /\ robocall_tickets = <<>>
    /\ postcall_transcriptions = <<>>
    /\ clock = StartMs
    /\ pc = [r \in Reqs |-> "idle"]
    /\ kind = [r \in Reqs |-> "none"]
    /\ req = [r \in Reqs |-> NoReq]
    /\ loc = [r \in Reqs |-> NoLoc]
    /\ last = NoLast
    /\ arrived = 0
    /\ tickets = <<>>

Free(r) == pc[r] = "idle"

\* a request arrives at the first free slot
MayArrive(r) ==
    /\ Free(r)
    /\ \A q \in Reqs : q < r => ~Free(q)

Quiescent == \A r \in Reqs : Free(r)

\* the handler of slot r goes on serving request `request` of kind k
Continue(r, k, request, l, at) ==
    /\ pc' = [pc EXCEPT ![r] = at]
    /\ kind' = [kind EXCEPT ![r] = k]
    /\ req' = [req EXCEPT ![r] = request]
    /\ loc' = [loc EXCEPT ![r] = l]
    /\ UNCHANGED last

\* res.status(status).json(body): the handler of slot r answers and ends
AnswerWith(r, k, request, l, status, body) ==
    /\ last' = [kind |-> k, req |-> request, status |-> status,
                loc |-> [l EXCEPT !.norm = NoNorm], body |-> body]
    /\ pc' = [pc EXCEPT ![r] = "idle"]
    /\ kind' = [kind EXCEPT ![r] = "none"]
    /\ req' = [req EXCEPT ![r] = NoReq]
    /\ loc' = [loc EXCEPT ![r] = NoLoc]

\* an answer whose body carries no ticket
Answer(r, k, request, l, status) == AnswerWith(r, k, request, l, status, NoBody)

\* a handler that logs the delivery in postcall_transcriptions before it
\* verifies it
PostcallReceiveStoreFirst(r, request) ==
    /\ MayArrive(r)
    /\ arrived' = arrived + 1
    /\ LET v == Verify(request, clock)
       IN /\ postcall_transcriptions' =
                Append(postcall_transcriptions, [event |-> v.event, received_at |-> clock])
          /\ IF v.status # 0
             THEN Answer(r, "postcall", request, [NoLoc EXCEPT !.event = v.event], v.status)
             ELSE Continue(r, "postcall", request,
                           [NoLoc EXCEPT !.event = v.event, !.stored = TRUE], "reconcile")
    /\ UNCHANGED <<robocall_tickets, clock, tickets>>

\* POST /webhook/elevenlabs/postcall, app.js:1037-1100: the checks, and for a
\* transcript event the insert into postcall_transcriptions
PostcallReceive(r, request) ==
    /\ MayArrive(r)
    /\ arrived' = arrived + 1
    /\ LET v == Verify(request, clock)
       IN IF v.status # 0
          THEN /\ Answer(r, "postcall", request, [NoLoc EXCEPT !.event = v.event], v.status)
               /\ UNCHANGED postcall_transcriptions
          ELSE /\ postcall_transcriptions' =
                     Append(postcall_transcriptions,
                            [event |-> v.event, received_at |-> clock])
               /\ Continue(r, "postcall", request,
                           [NoLoc EXCEPT !.event = v.event, !.stored = TRUE], "reconcile")
    /\ UNCHANGED <<robocall_tickets, clock, tickets>>

\* create_robocall_ticket up to the lookup, app.js:828-872
ReconcileFind(r) ==
    /\ pc[r] = "reconcile"
    /\ LET norm == Normalize(EventTable[loc[r].event], clock)
           data == norm.call_transcription.data
           existing == FindByKey(robocall_tickets, data.agent_id, data.conversation_id)
       IN Continue(r, kind[r], req[r], [loc[r] EXCEPT !.norm = norm, !.existing = existing],
                   IF existing # 0 THEN "update" ELSE "generate")
    /\ UNCHANGED <<robocall_tickets, postcall_transcriptions, clock, arrived, tickets>>

\* the found branch, app.js:874-891, and the response, app.js:1109
ReconcileUpdate(r) ==
    /\ pc[r] = "update"
    /\ robocall_tickets' =
          [robocall_tickets EXCEPT ![loc[r].existing] = UpdateFields(@, loc[r].norm)]
    /\ Answer(r, kind[r], req[r],
              [loc[r] EXCEPT !.ticket_number =
                                robocall_tickets[loc[r].existing].ticket_number],
              200)
    /\ UNCHANGED <<postcall_transcriptions, clock, arrived, tickets>>

\* a loop condition that allows one try too many
TryAgainOnceMore(exists, tries) == exists /\ tries <= maxTries

\* the loop condition of generateUniqueTicketNumber, app.js:652
TryAgain(exists, tries) == exists /\ tries < maxTries

\* a webhook that reports a failed reconciliation to the sender
StatusOnThrowReported(k) == 500

\* the status answered when generateUniqueTicketNumber throws: the webhook
\* logs and answers 200 (app.js:1103-1109), manual creation answers 500
\* (app.js:1004-1006)
StatusOnThrow(k) == IF k = "postcall" THEN 200 ELSE 500

\* one pass of the loop of generateUniqueTicketNumber, app.js:648-654: draw a
\* candidate, look it up, count the try; then go round again, throw or return
GenerateAttempt(r, candidate) ==
    /\ pc[r] = "generate"
    /\ LET exists == FindByNumber(robocall_tickets, candidate) # 0
           tries == loc[r].tries + 1
           l == [loc[r] EXCEPT !.ticket_number = candidate, !.exists = exists,
                               !.tries = tries]
       IN IF TryAgain(exists, tries)
          THEN Continue(r, kind[r], req[r], l, "generate")
          ELSE IF exists
          THEN Answer(r, kind[r], req[r], [l EXCEPT !.threw = TRUE], StatusOnThrow(kind[r]))
          ELSE Continue(r, kind[r], req[r], l, "insert")
    /\ UNCHANGED <<robocall_tickets, postcall_transcriptions, clock, arrived, tickets>>

\* the not-found branch after the number is generated, app.js:896-908, and the
\* response, app.js:1109
ReconcileInsert(r) ==
    /\ pc[r] = "insert"
    /\ kind[r] = "postcall"
    /\ robocall_tickets' =
          Append(robocall_tickets, TicketDoc(loc[r].ticket_number, loc[r].norm))
    /\ Answer(r, kind[r], req[r], loc[r], 200)
    /\ UNCHANGED <<postcall_transcriptions, clock, arrived, tickets>>

\* POST /webhook/robocall-ticket up to the number generation, app.js:974-981
ManualReceive(r, body) ==
    /\ MayArrive(r)
    /\ arrived' = arrived + 1
    /\ IF FalsyStr(body.subject) \/ FalsyStr(body.agent_id) \/ FalsyStr(body.conversation_id)
       THEN Answer(r, "manual", body, NoLoc, 400)
       ELSE Continue(r, "manual", body, NoLoc, "generate")
    /\ UNCHANGED <<robocall_tickets, postcall_transcriptions, clock, tickets>>

\* POST /webhook/robocall-ticket after the number is generated, app.js:984-1003
ManualInsert(r) ==
    /\ pc[r] = "insert"
    /\ kind[r] = "manual"
    /\ robocall_tickets' =
          Append(robocall_tickets, ManualTicketDoc(loc[r].ticket_number, req[r], clock))
    /\ Answer(r, kind[r], req[r], loc[r], 201)
    /\ UNCHANGED <<postcall_transcriptions, clock, arrived, tickets>>

\* POST /webhook/robocall-ticket/update-status, app.js:917-939
UpdateStatus(r, body) ==
    /\ MayArrive(r)
    /\ arrived' = arrived + 1
    /\ IF body.ticket_number = NoNumber \/ FalsyStr(body.ticket_status)
       THEN /\ Answer(r, "status", body, NoLoc, 400)
            /\ UNCHANGED robocall_tickets
       ELSE LET ticket_number == StripSpaces(body.ticket_number)
                agent_id == StripSpaces(body.agent_id)
                matched == FindForStatus(robocall_tickets, ticket_number, agent_id)
            IN IF matched = 0
               THEN /\ Answer(r, "status", body, NoLoc, 404)
                    /\ UNCHANGED robocall_tickets
               ELSE /\ robocall_tickets' =
                          [robocall_tickets EXCEPT
                              ![matched] = SetStatus(@, body.ticket_status, clock)]
                    /\ Answer(r, "status", body, [NoLoc EXCEPT !.existing = matched], 200)
    /\ UNCHANGED <<postcall_transcriptions, clock, tickets>>

\* EvaluationTrigger: the evaluator's result is written onto a ticket that is
\* pending evaluation (eval and updated_at)
EvalWriteBack(i) ==
    /\ i \in DOMAIN robocall_tickets
    /\ robocall_tickets[i].eval \in {Null, Undef}
    /\ robocall_tickets' =
          [robocall_tickets EXCEPT ![i].eval = "scored", ![i].updated_at = clock]
    /\ UNCHANGED <<postcall_transcriptions, clock, pc, kind, req, loc, last, arrived, tickets>>

\* the body of the status lookup's answer, app.js:959-963
StatusReply(ticket) ==
    [ticket_number |-> ticket.ticket_number,
     ticket_status |-> OrStr(ticket.ticket_status, "open"),
     subject |-> OrStr(ticket.subject, "")]

\* POST /webhook/robocall-ticket/status, app.js:946-967
StatusLookup(r, body) ==
    /\ MayArrive(r)
    /\ arrived' = arrived + 1
    /\ IF body.ticket_number = NoNumber
       THEN Answer(r, "lookup", body, NoLoc, 400)
       ELSE LET ticket_number == StripSpaces(body.ticket_number)
                found == FindByNumber(robocall_tickets, ticket_number)
            IN IF found = 0
               THEN Answer(r, "lookup", body, NoLoc, 404)
               ELSE AnswerWith(r, "lookup", body, [NoLoc EXCEPT !.existing = found], 200,
                               StatusReply(robocall_tickets[found]))
    /\ UNCHANGED <<robocall_tickets, postcall_transcriptions, clock, tickets>>

\* the filter of the listing, app.js:1017-1026: only agent_id is read from the
\* query; it matches the nested or a top-level agent_id
ListQuery(coll, query) ==
    { i \in DOMAIN coll :
        ~FalsyStr(query.agent_id) =>
            \/ coll[i].call_transcription.data.agent_id = query.agent_id
            \/ coll[i].agent_id # NoNumber /\ coll[i].agent_id = query.agent_id }

\* find(query).toArray(): the matching documents in insertion order
ToArray(coll, matching) ==
    LET F[n \in 0..Len(coll)] ==
            IF n = 0 THEN <<>>
            ELSE IF n \in matching THEN Append(F[n - 1], coll[n]) ELSE F[n - 1]
    IN F[Len(coll)]

\* GET /api/robocall-tickets, app.js:1014-1032
ListTickets(r, query) ==
    /\ MayArrive(r)
    /\ arrived' = arrived + 1
    /\ AnswerWith(r, "list", query, NoLoc, 200,
                  ToArray(robocall_tickets, ListQuery(robocall_tickets, query)))
    /\ UNCHANGED <<robocall_tickets, postcall_transcriptions, clock, tickets>>

\* GET /api/robocall-tickets/pending-eval (api_examples.md, 16): a page of
\* the tickets where eval is null, by _id ascending; limit defaults to 1000
\* and is at most 1000
MaxPage == 1000

PageLimit(limit) ==
    IF limit = NoNum THEN MaxPage ELSE IF limit > MaxPage THEN MaxPage ELSE limit

\* a filter that leaves eval out
PendingQueryAll(coll) == DOMAIN coll

\* the filter {eval: null}: the field is null or missing
PendingQuery(coll) == { i \in DOMAIN coll : coll[i].eval \in {Null, Undef} }

Page(docs, limit) ==
    SubSeq(docs, 1, IF Len(docs) < PageLimit(limit) THEN Len(docs) ELSE PageLimit(limit))

PendingEval(r, query) ==
    /\ MayArrive(r)
    /\ arrived' = arrived + 1
    /\ AnswerWith(r, "pending", query, NoLoc, 200,
                  Page(ToArray(robocall_tickets, PendingQuery(robocall_tickets)),
                       query.limit))
    /\ UNCHANGED <<robocall_tickets, postcall_transcriptions, clock, tickets>>

\* POST /webhook/ticket up to the call of generateTicketNumber, app.js:665-670
TicketReceive(r, body) ==
    /\ MayArrive(r)
    /\ arrived' = arrived + 1
    /\ IF FalsyStr(body.subject)
       THEN Answer(r, "ticket", body, NoLoc, 400)
       ELSE Continue(r, "ticket", body, NoLoc, "ticket_generate")
    /\ UNCHANGED <<robocall_tickets, postcall_transcriptions, clock, tickets>>

\* generateTicketNumber, app.js:660-662: one pass of the loop of
\* generateUniqueTicketNumber over the tickets collection
TicketGenerateAttempt(r, candidate) ==
    /\ pc[r] = "ticket_generate"
    /\ LET exists == FindByNumber(tickets, candidate) # 0
           tries == loc[r].tries + 1
           l == [loc[r] EXCEPT !.ticket_number = candidate, !.exists = exists,
                               !.tries = tries]
       IN IF TryAgain(exists, tries)
          THEN Continue(r, kind[r], req[r], l, "ticket_generate")
          ELSE IF exists
          THEN Answer(r, kind[r], req[r], [l EXCEPT !.threw = TRUE], 500)
          ELSE Continue(r, kind[r], req[r], l, "ticket_create")
    /\ UNCHANGED <<robocall_tickets, postcall_transcriptions, clock, arrived, tickets>>

\* the ticket object, app.js:672-681: its initializer reads ticket.status
\* (app.js:675) while the binding `ticket` is not yet initialised, which throws
\* a ReferenceError; insertOne (app.js:682) is not reached and the catch
\* answers 500 (app.js:684-686)
TicketCreate(r) ==
    /\ pc[r] = "ticket_create"
    /\ Answer(r, kind[r], req[r], [loc[r] EXCEPT !.threw = TRUE], 500)
    /\ UNCHANGED <<robocall_tickets, postcall_transcriptions, clock, arrived, tickets>>

\* time passes
Tick ==
    /\ clock < StartMs + MaxTicks * TickMs
    /\ clock' = clock + TickMs
    /\ UNCHANGED <<robocall_tickets, postcall_transcriptions, pc, kind, req, loc, last, arrived,
                   tickets>>

----------------------------------------------------------------------------
(* What the model delivers.                                                *)

Secret == "s3cret"

\* the body that carries event k, and the header its sender signs it with
BodyOf(k) == <<OpenBrace, Digit0 + k, CloseBrace>>
FreshTs == TsNum(Floor1000(StartMs))
Signed(secret, ts, body) ==
    [secret |-> secret,
     header |-> [present |-> TRUE, parts |-> <<TPart(ts), V0Part(Hmac(Secret, ts, body))>>],
     body |-> body]

\* authentic, fresh deliveries of the transcript events
TranscriptEventIds == { k \in EventIds : EventTable[k].type = Transcription }
CoreRequests == { Signed(Secret, FreshTs, BodyOf(k)) : k \in TranscriptEventIds }

ManualBody(subject, agent, conv) ==
    [subject |-> subject, category |-> Undef, customer_name |-> "m", priority |-> Undef,
     agent_id |-> agent, conversation_id |-> conv]
ManualBodies == { ManualBody("manual", "agent1", "conv1"), ManualBody(Undef, "agent1", "conv1") }

StatusBody(number, status, agent) ==
    [ticket_number |-> number, ticket_status |-> status, agent_id |-> agent]
StatusBodies ==
    { StatusBody(<<"A", "B", "C", " ", "\t", "1", "2", "\n", "3">>, "open", NoNumber),
      StatusBody(<<"Z", "Z", "Z", "9", "9", "9">>, "resolved", <<"a", "g", "e", "n", "t", "1">>),
      StatusBody(NoNumber, "open", NoNumber) }

\* Deliveries of every kind: with and without a configured secret, with a
\* header that is absent, incomplete or complete, a timestamp that is fresh,
\* stale, in the future or no number, a digest computed with the right or a
\* wrong key over the body sent or over another body
StaleTs == TsNum(Floor1000(StartMs - ToleranceMs) - 1)
FutureTs == TsNum(Floor1000(StartMs) + 3600)
\* half a second more than 30 minutes old at the start, and exactly 30
\* minutes old once the clock has advanced to a whole second
JustStaleTs == TsNum(Floor1000(StartMs - ToleranceMs))
BoundaryTs == TsNum(Floor1000(StartMs + TickMs - ToleranceMs))
Timestamps == {FreshTs, StaleTs, JustStaleTs, BoundaryTs, FutureTs, TsNaN, TsEmpty}

InvalidByte == 255
TamperedBody == <<OpenBrace, Digit0 + 1, InvalidByte, CloseBrace>>
ReplacedBody == <<OpenBrace, Digit0 + 1>> \o Utf8Replacement \o <<CloseBrace>>
Bodies ==
    { BodyOf(1), BodyOf(5), BodyOf(6),
      <<120>>,                                          \* no JSON
      <<InvalidByte>>, Utf8Replacement,                 \* no JSON, and no UTF-8
      TamperedBody, ReplacedBody }

\* digests a header may carry for a body: the sender's, one made with another
\* key, one made for another timestamp, and those made over other bodies
Digests(ts, body) ==
    { Hmac(Secret, ts, body), Hmac("other", ts, body), Hmac(Secret, FutureTs, body),
      Hmac(Secret, ts, BodyOf(1)), Hmac(Secret, ts, ReplacedBody),
      Hmac(Secret, ts, Utf8Replacement) }

HeaderParts(ts, body) ==
    { <<TPart(ts), V0Part(mac)>> : mac \in Digests(ts, body) }
    \cup { <<V0Part(Hmac(Secret, ts, body)), OtherPart, TPart(ts)>>,
           <<TPart(ts)>>, <<V0Part(Hmac(Secret, ts, body))>>, <<OtherPart>> }

Request(secret, present, parts, body) ==
    [secret |-> secret, header |-> [present |-> present, parts |-> parts], body |-> body]

WideRequests ==
    UNION { { Request(Secret, TRUE, parts, body) : parts \in HeaderParts(FreshTs, body) } :
               body \in Bodies }
    \cup
    UNION { { Request(Secret, TRUE, <<TPart(ts), V0Part(mac)>>, BodyOf(1)) :
                 mac \in {Hmac(Secret, ts, BodyOf(1)), Hmac("other", ts, BodyOf(1))} } :
               ts \in Timestamps }
    \cup
    UNION { { Request(secret, FALSE, <<>>, body),
              Request(secret, TRUE, <<TPart(StaleTs)>>, body),
              Request(secret, TRUE,
                      <<TPart(StaleTs), V0Part(Hmac("other", StaleTs, body))>>, body),
              Request(secret, TRUE,
                      <<TPart(FreshTs), V0Part(Hmac(Secret, FreshTs, body))>>, body) } :
               secret \in {"", Secret}, body \in {BodyOf(1), <<120>>} }

\* the model receives another request
More == arrived < MaxRequests

\* what the handler of a delivery does after the event is stored
Reconcile(r) ==
    \/ ReconcileFind(r)
    \/ ReconcileUpdate(r)
    \/ \E candidate \in DrawOutcomes : GenerateAttempt(r, candidate)
    \/ ReconcileInsert(r)

\* manual creations with and without the optional and the mandatory fields
ApiManualBodies ==
    ManualBodies
    \cup { [ManualBody("manual", "agent1", Undef) EXCEPT !.priority = "high"],
           [ManualBody("manual", "", "conv1") EXCEPT !.category = "c"],
           [ManualBody("urgent", "agent2", "conv2") EXCEPT !.priority = "high"] }

StatusLookupBodies ==
    { [ticket_number |-> <<"A", "B", "C", " ", "\t", "1", "2", "\n", "3">>],
      [ticket_number |-> <<" ", "Z", "Z", "Z", "9", "9", "9">>],
      [ticket_number |-> NoNumber] }

TicketBody(subject, status) ==
    [subject |-> subject, description |-> "User reports login failure.",
     priority |-> "high", customer_name |-> "John Doe", agent_id |-> "agent123",
     status |-> status]
TicketBodies ==
    { TicketBody("Cannot log in", "open"), TicketBody("Cannot log in", Undef),
      TicketBody(Undef, "open"), TicketBody("", Undef) }

\* what the handler of POST /webhook/ticket does after the request is received
TicketStep(r) ==
    \/ \E candidate \in DrawOutcomes : TicketGenerateAttempt(r, candidate)
    \/ TicketCreate(r)

PendingQueries == { [limit |-> NoNum], [limit |-> 1], [limit |-> 2000] }

MoreApi == arrived < MaxApiRequests

ListingQuery(agent, number) == [agent_id |-> agent, ticket_number |-> number]
ListingQueries ==
    { ListingQuery(Undef, Undef),
      ListingQuery("agent1", Undef),
      ListingQuery(Undef, <<"A", "B", "C", "1", "2", "3">>),
      ListingQuery("agent2", <<"A", "B", "C", "1", "2", "3">>) }

\* what a handler does after its request is received
Step(r) == Reconcile(r) \/ ManualInsert(r)

(* Requests handled concurrently: a handler's steps interleave with those  *)
(* of the others at every await.                                           *)
Next ==
    \/ \E r \in Reqs, request \in CoreRequests : More /\ PostcallReceive(r, request)
    \/ \E r \in Reqs, body \in ManualBodies : More /\ ManualReceive(r, body)
    \/ \E r \in Reqs, body \in StatusBodies : More /\ UpdateStatus(r, body)
    \/ \E r \in Reqs : Step(r)
    \/ \E i \in DOMAIN robocall_tickets : EvalWriteBack(i)

Spec == Init /\ [][Next]_vars

(* Requests handled one after the other: a request is received only when   *)
(* no handler is in flight.  Time passes between and during requests.      *)
NextSeq ==
    \/ \E r \in Reqs, request \in CoreRequests :
          More /\ Quiescent /\ PostcallReceive(r, request)
    \/ \E r \in Reqs, body \in ManualBodies : More /\ Quiescent /\ ManualReceive(r, body)
    \/ \E r \in Reqs, body \in StatusBodies : More /\ Quiescent /\ UpdateStatus(r, body)
    \/ \E r \in Reqs : Step(r)
    \/ \E i \in DOMAIN robocall_tickets : Quiescent /\ EvalWriteBack(i)
    \/ Tick

SpecSeq == Init /\ [][NextSeq]_vars

(* Concurrent requests whose handlers go on whenever the store has         *)
(* answered; nothing is assumed of the evaluator: its result may be        *)
(* written back at any time or never.                                      *)
SpecFair == Init /\ [][Next]_vars /\ \A r \in Reqs : WF_vars(Step(r))

\* postcallTranscriptionsCollection.insertOne rejects, app.js:1096: the
\* outer catch answers 500 (app.js:1110-1113) and nothing is stored
PostcallStoreFails(r, request) ==
    /\ MayArrive(r)
    /\ arrived' = arrived + 1
    /\ Verify(request, clock).status = 0
    /\ Answer(r, "postcall", request,
              [NoLoc EXCEPT !.event = Verify(request, clock).event], 500)
    /\ UNCHANGED <<robocall_tickets, postcall_transcriptions, clock, tickets>>

\* a failure that leaves the handler waiting
ReconcileFailsUnanswered(r) ==
    /\ kind[r] = "postcall"
    /\ pc[r] \in {"reconcile", "update", "generate", "insert"}
    /\ Continue(r, kind[r], req[r], [loc[r] EXCEPT !.threw = TRUE], "failed")
    /\ UNCHANGED <<robocall_tickets, postcall_transcriptions, clock, arrived, tickets>>

\* the store operation create_robocall_ticket awaits rejects (findOne
\* app.js:869 and 650, updateOne app.js:886, insertOne app.js:906): the
\* handler logs the error (app.js:1105-1107) and answers 200 (app.js:1109)
ReconcileFails(r) ==
    /\ kind[r] = "postcall"
    /\ pc[r] \in {"reconcile", "update", "generate", "insert"}
    /\ Answer(r, kind[r], req[r], [loc[r] EXCEPT !.threw = TRUE], 200)
    /\ UNCHANGED <<robocall_tickets, postcall_transcriptions, clock, arrived, tickets>>

(* Concurrent requests against a store whose operations return or fail:   *)
(* every handler goes on when the operation it awaits has returned or      *)
(* failed.                                                                 *)
NextFaulty ==
    \/ Next
    \/ \E r \in Reqs, request \in CoreRequests : More /\ PostcallStoreFails(r, request)
    \/ \E r \in Reqs : ReconcileFails(r)

SpecFaulty ==
    Init /\ [][NextFaulty]_vars /\ \A r \in Reqs : WF_vars(Step(r) \/ ReconcileFails(r))

(* The webhook alone, one delivery after the other, over deliveries of     *)
(* every kind.                                                             *)
NextVerify ==
    \/ \E r \in Reqs, request \in WideRequests :
          More /\ Quiescent /\ PostcallReceive(r, request)
    \/ \E r \in Reqs : Reconcile(r)
    \/ Tick

SpecVerify == Init /\ [][NextVerify]_vars

(* The ticket routes and the queries next to the webhook, one request     *)
(* after the other.                                                        *)
NextApi ==
    \/ \E r \in Reqs, request \in CoreRequests :
          MoreApi /\ Quiescent /\ PostcallReceive(r, request)
    \/ \E r \in Reqs, body \in ApiManualBodies : MoreApi /\ Quiescent /\ ManualReceive(r, body)
    \/ \E r \in Reqs, body \in StatusBodies : MoreApi /\ Quiescent /\ UpdateStatus(r, body)
    \/ \E r \in Reqs, body \in StatusLookupBodies :
          MoreApi /\ Quiescent /\ StatusLookup(r, body)
    \/ \E r \in Reqs, query \in ListingQueries : MoreApi /\ Quiescent /\ ListTickets(r, query)
    \/ \E r \in Reqs, query \in PendingQueries :
          MoreApi /\ Quiescent /\ PendingEval(r, query)
    \/ \E r \in Reqs, body \in TicketBodies : MoreApi /\ Quiescent /\ TicketReceive(r, body)
    \/ \E r \in Reqs : TicketStep(r)
    \/ \E r \in Reqs : Step(r)
    \/ \E i \in DOMAIN robocall_tickets : Quiescent /\ EvalWriteBack(i)

SpecApi == Init /\ [][NextApi]_vars

(* One conversation: deliveries of its transcript event, handled           *)
(* concurrently, and status updates between them.                          *)
LifecycleRequests == { Signed(Secret, FreshTs, BodyOf(1)) }

NextLifecycle ==
    \/ \E r \in Reqs, request \in LifecycleRequests :
          arrived < MaxLifecycleRequests /\ PostcallReceive(r, request)
    \/ \E r \in Reqs, body \in StatusBodies :
          arrived < MaxLifecycleRequests /\ Quiescent /\ UpdateStatus(r, body)
    \/ \E r \in Reqs : Reconcile(r)

SpecLifecycle == Init /\ [][NextLifecycle]_vars

(* The normaliser alone: create_robocall_ticket up to the lookup, applied  *)
(* to payloads of every shape.  Each slot holds the same fields, nested    *)
(* under data in the odd slots and at the top level in the even ones.      *)
AnalysisInputs ==
    { NoAnalysis, [NoAnalysis EXCEPT !.present = TRUE] }
    \cup { [present |-> TRUE, dcr |-> TRUE, subject |-> subj, category |-> cat,
            customer_name |-> cust, priority |-> prio] :
              subj \in {Undef, Null, "", "s1"}, cat \in {Undef, "c1"},
              cust \in {Null, "n1"}, prio \in {Undef, Null, "", "high"} }

MetadataInputs ==
    { NoMetadata }
    \cup { [present |-> TRUE, start_time_unix_secs |-> start, accepted_time_unix_secs |-> acc] :
              start \in {NoNum, 0, 1700}, acc \in {NoNum, 0, 1650} }

TranscriptInputs ==
    { [isArray |-> FALSE, turns |-> <<Turn("agent", "hi", 0, "tool_calls")>>],
      [isArray |-> TRUE, turns |-> <<>>],
      [isArray |-> TRUE, turns |-> <<Turn("agent", "hi", 0, "tool_calls"),
                                     Turn("user", "yo", 3, "feedback"),
                                     Turn("agent", "hi", 5, "tool_calls")>>] }

FieldsInputs ==
    { [agent_id |-> "agent1", conversation_id |-> "conv1", status |-> "done",
       user_id |-> "u1", transcript |-> t, metadata |-> m, analysis |-> a] :
          t \in TranscriptInputs, m \in MetadataInputs, a \in AnalysisInputs }

InitNormalize ==
    /\ robocall_tickets = <<>>
    /\ postcall_transcriptions = <<>>
    /\ clock \in {StartMs, StartMs + MaxTicks * TickMs}
    /\ pc = [r \in Reqs |-> "normalize"]
    /\ kind = [r \in Reqs |-> "postcall"]
    /\ \E f \in FieldsInputs :
          req = [r \in Reqs |-> IF r % 2 = 1 THEN Wrapped(Transcription, f)
                                            ELSE Flat(Transcription, f)]
    /\ loc = [r \in Reqs |-> NoLoc]
    /\ last = NoLast
    /\ arrived = 0
    /\ tickets = <<>>

\* app.js:830-866 for the event of slot r
NormalizeEvent(r) ==
    /\ pc[r] = "normalize"
    /\ pc' = [pc EXCEPT ![r] = "normalized"]
    /\ loc' = [loc EXCEPT ![r].norm = Normalize(req[r], clock)]
    /\ UNCHANGED <<robocall_tickets, postcall_transcriptions, clock, kind, req, last,
                   arrived, tickets>>

NextNormalize == \E r \in Reqs : NormalizeEvent(r)

SpecNormalize == InitNormalize /\ [][NextNormalize]_vars

----------------------------------------------------------------------------
(* Properties.                                                             *)

Tickets == DOMAIN robocall_tickets

KeyOf(t) == <<t.call_transcription.data.agent_id, t.call_transcription.data.conversation_id>>

\* a ticket the reconciler inserted: only manual creation sets created_at
ReconcilerInserted(t) == t.created_at = NoTime

\* a ticket the reconciler has written, by insert or by update
ReconcilerWrote(t) == ~t.call_transcription.minimal

NumberPresent(number) == \E i \in Tickets : robocall_tickets[i].ticket_number = number

\* the instants the clock shows in a behaviour
Times == { StartMs + n * TickMs : n \in 0..MaxTicks }

\* C1: after any sequence of transcript deliveries and manual creations, at
\* most one ticket exists for any (agent_id, conversation_id) pair.
C1_OneTicketPerKey ==
    \A i, j \in Tickets :
        KeyOf(robocall_tickets[i]) = KeyOf(robocall_tickets[j]) => i = j

\* C2: when two deliveries for one key both observe "not found", only one
\* ticket is created for the key: once the handlers have finished, no two
\* tickets inserted by the reconciler carry the same key.
C2_NoDuplicateFromRace ==
    Quiescent =>
        \A i, j \in Tickets :
            /\ ReconcilerInserted(robocall_tickets[i])
            /\ ReconcilerInserted(robocall_tickets[j])
            /\ KeyOf(robocall_tickets[i]) = KeyOf(robocall_tickets[j])
            => i = j

\* the ticket's subject, category, customer_name, priority and
\* call_transcription are those of one event, normalised at one instant
FromOnePayload(t) ==
    \E k \in TranscriptEventIds, at \in Times :
        LET n == Normalize(EventTable[k], at)
        IN /\ t.subject = n.subject
           /\ t.category = n.category
           /\ t.customer_name = n.customer_name
           /\ t.priority = n.priority
           /\ t.call_transcription = n.call_transcription

\* C3: under every interleaving of concurrent deliveries, every ticket the
\* reconciler has written holds subject, category, customer_name, priority
\* and call_transcription of one single event payload, never a mixture.
C3_WholePayload ==
    \A i \in Tickets :
        ReconcilerWrote(robocall_tickets[i]) => FromOnePayload(robocall_tickets[i])

\* two concurrent deliveries of different payloads for one key have both
\* written, each its own ticket
C3_Witness ==
    /\ Quiescent
    /\ \E i, j \in Tickets :
          /\ i # j
          /\ KeyOf(robocall_tickets[i]) = KeyOf(robocall_tickets[j])
          /\ robocall_tickets[i].subject = "s1"
          /\ robocall_tickets[j].subject = "s2"

\* C4: the update of an existing ticket by create_robocall_ticket writes the
\* event's subject, category, customer_name, priority and call_transcription,
\* keeps the ticket_number and sets eval to null, whatever eval was.
C4_OverwriteOnUpdate ==
    [][\A r \in Reqs :
          (pc[r] = "update" /\ pc'[r] = "idle") =>
              LET i == loc[r].existing
                  data == DataOf(EventTable[loc[r].event])
                  a == AnalysisFields(data)
              IN /\ robocall_tickets'[i].subject = a.subject
                 /\ robocall_tickets'[i].category = a.category
                 /\ robocall_tickets'[i].customer_name = a.customer_name
                 /\ robocall_tickets'[i].priority = a.priority
                 /\ robocall_tickets'[i].call_transcription =
                       CallTranscription(data, loc[r].norm.now)
                 /\ robocall_tickets'[i].ticket_number = robocall_tickets[i].ticket_number
                 /\ robocall_tickets'[i].eval = Null]_vars

\* event 1 then event 2 were delivered for one key, and the one ticket of the
\* key, updated by the second delivery, holds the second event's subject
C4_Witness ==
    /\ Len(postcall_transcriptions) = 2
    /\ postcall_transcriptions[1].event = 1
    /\ postcall_transcriptions[2].event = 2
    /\ last.kind = "postcall"
    /\ last.loc.existing = 1
    /\ Len(robocall_tickets) = 1
    /\ robocall_tickets[1].subject = "s2"
    /\ robocall_tickets[1].eval = Null
    /\ robocall_tickets[1].updated_at # NoTime

\* the request of slot r delivers again the event whose delivery was answered
\* last, and that delivery was reconciled
Redelivery(r) ==
    /\ kind[r] = "postcall"
    /\ last.kind = "postcall"
    /\ last.status = 200
    /\ last.loc.stored
    /\ ~last.loc.threw
    /\ last.loc.event = loc[r].event

IgnoreStamps(t) ==
    [t EXCEPT !.updated_at = NoTime, !.call_transcription.data.received_at = NoTime]

IgnoreStampsAndClockTimestamp(t) ==
    [IgnoreStamps(t) EXCEPT !.call_transcription.event_timestamp = NoTime]

\* the event carries a start or accepted time that event_timestamp is taken from
HasEventTime(k) ==
    LET m == DataOf(EventTable[k]).metadata
    IN ~FalsyNum(m.start_time_unix_secs) \/ ~FalsyNum(m.accepted_time_unix_secs)

\* C5 as claimed: processing the same transcript event a second time, right
\* after the first, creates no ticket and changes no ticket's content, the
\* received_at and updated_at timestamps aside.
C5_Idempotent ==
    [][\A r \in Reqs :
          Redelivery(r) =>
              /\ pc[r] = "reconcile" => pc'[r] \in {"reconcile", "update"}
              /\ (/\ pc[r] = "update"
                  /\ pc'[r] = "idle"
                  /\ robocall_tickets[loc[r].existing].eval = Null)
                 => /\ Len(robocall_tickets') = Len(robocall_tickets)
                    /\ \A i \in Tickets :
                          IgnoreStamps(robocall_tickets'[i]) =
                             IgnoreStamps(robocall_tickets[i])]_vars

\* C5 as amended: the same, where event_timestamp is ignored too for an event
\* that carries no non-zero start or accepted time (it is then the clock's).
C5_IdempotentButClock ==
    [][\A r \in Reqs :
          Redelivery(r) =>
              /\ pc[r] = "reconcile" => pc'[r] \in {"reconcile", "update"}
              /\ (/\ pc[r] = "update"
                  /\ pc'[r] = "idle"
                  /\ robocall_tickets[loc[r].existing].eval = Null)
                 => /\ Len(robocall_tickets') = Len(robocall_tickets)
                    /\ \A i \in Tickets :
                          IF HasEventTime(loc[r].event)
                          THEN IgnoreStamps(robocall_tickets'[i]) =
                                  IgnoreStamps(robocall_tickets[i])
                          ELSE IgnoreStampsAndClockTimestamp(robocall_tickets'[i]) =
                                  IgnoreStampsAndClockTimestamp(robocall_tickets[i])]_vars

\* one event was delivered twice in a row, the clock advanced in between, and
\* the second delivery updated the ticket the first one created
C5_Witness ==
    /\ Len(postcall_transcriptions) = 2
    /\ postcall_transcriptions[1].event = postcall_transcriptions[2].event
    /\ postcall_transcriptions[1].received_at < postcall_transcriptions[2].received_at
    /\ last.kind = "postcall"
    /\ last.loc.existing = 1
    /\ Len(robocall_tickets) = 1
    /\ ReconcilerInserted(robocall_tickets[1])
    /\ robocall_tickets[1].updated_at # NoTime

\* C6: in every reachable state, concurrent creations included, no two
\* tickets carry the same ticket_number.
C6_UniqueNumbers ==
    \A i, j \in Tickets :
        robocall_tickets[i].ticket_number = robocall_tickets[j].ticket_number => i = j

\* C7: with strictly sequential allocations, a number returned by
\* generateUniqueTicketNumber is absent from the record set when it is
\* returned, and the numbers of all tickets are pairwise distinct.
C7_SequentialDistinct ==
    /\ \A r \in Reqs : pc[r] = "insert" => ~NumberPresent(loc[r].ticket_number)
    /\ \A i, j \in Tickets :
          robocall_tickets[i].ticket_number = robocall_tickets[j].ticket_number => i = j

\* a second ticket was created after its allocation retried a colliding
\* candidate
C7_Witness ==
    /\ Quiescent
    /\ Len(robocall_tickets) = 2
    /\ last.status \in {200, 201}
    /\ last.loc.tries >= 2
    /\ last.loc.ticket_number = robocall_tickets[2].ticket_number

\* C8: generateUniqueTicketNumber makes at most 5 attempts, each counted; it
\* goes round again only after a candidate that is present, returns the first
\* candidate that is absent, and throws exactly when the 5th candidate is
\* present like the four before it.
C8_BoundedAttempts ==
    [][\A r \in Reqs :
          (pc[r] = "generate" /\ <<pc[r], loc[r]>>' # <<pc[r], loc[r]>>) =>
              LET tries == loc[r].tries + 1
              IN /\ tries <= maxTries
                 /\ loc[r].tries > 0 => loc[r].exists
                 /\ pc'[r] \in {"generate", "insert", "idle"}
                 /\ pc'[r] = "generate" =>
                       /\ loc'[r].tries = tries
                       /\ tries < maxTries
                       /\ NumberPresent(loc'[r].ticket_number)
                 /\ pc'[r] = "insert" =>
                       /\ loc'[r].tries = tries
                       /\ ~NumberPresent(loc'[r].ticket_number)
                 /\ pc'[r] = "idle" =>
                       /\ tries = maxTries
                       /\ last'.loc.threw
                       /\ last'.loc.tries = maxTries
                       /\ NumberPresent(last'.loc.ticket_number)
                       /\ robocall_tickets' = robocall_tickets]_vars

\* an allocation threw after five candidates
C8_Witness == last.loc.threw /\ last.loc.tries = maxTries

\* C9: no operation changes the ticket_number of an existing ticket.
C9_NumberImmutable ==
    [][\A i \in Tickets :
          /\ i \in DOMAIN robocall_tickets'
          /\ robocall_tickets'[i].ticket_number = robocall_tickets[i].ticket_number]_vars

\* a ticket the reconciler created and a status update re-opened carries a
\* generated number
C9_Witness ==
    \E i \in Tickets :
        /\ ReconcilerInserted(robocall_tickets[i])
        /\ robocall_tickets[i].ticket_status = "open"
        /\ robocall_tickets[i].updated_at # NoTime
        /\ robocall_tickets[i].ticket_number \in DrawOutcomes

\* a delivery with the configured secret, a header "t=<ts>,v0=<digest>" and
\* a timestamp no older than 30 minutes
FreshWellFormed(request) ==
    /\ request.secret = Secret
    /\ request.header.present
    /\ Len(request.header.parts) = 2
    /\ request.header.parts[1].prefix = "t="
    /\ request.header.parts[2].prefix = "v0="
    /\ request.header.parts[1].ts.kind = "num"
    /\ request.header.parts[1].ts.secs * 1000 >= clock - ToleranceMs

SentDigest(request) == request.header.parts[2].mac

\* C10: with a configured secret and a timestamp within 30 minutes, a
\* delivery whose v0 is the HMAC of "<t>." and the received body passes
\* verification, and one whose body differs from the body v0 was computed
\* over is answered 401 and never stored or reconciled.
C10_DigestDecides ==
    /\ (last.kind = "postcall" /\ FreshWellFormed(last.req)) =>
          /\ SentDigest(last.req) =
                Hmac(Secret, last.req.header.parts[1].ts, last.req.body)
             => last.status \in {200, 400}
          /\ SentDigest(last.req).msg # last.req.body
             => last.status = 401 /\ ~last.loc.stored
    /\ \A r \in Reqs :
          (kind[r] = "postcall" /\ FreshWellFormed(req[r])) =>
              SentDigest(req[r]).msg = req[r].body

----------------------------------------------------------------------------
(* The request a step receives.  A request arrives at slot r; after the    *)
(* step it is either answered (it is in last') or its handler goes on.     *)

ArrivedAt(r) == MayArrive(r) /\ arrived' = arrived + 1
ArrivedKind(r) == IF pc'[r] = "idle" THEN last'.kind ELSE kind'[r]
ArrivedReq(r) == IF pc'[r] = "idle" THEN last'.req ELSE req'[r]
\* 0: no answer yet
ArrivedStatus(r) == IF pc'[r] = "idle" THEN last'.status ELSE 0

PostcallArrivedAt(r) == ArrivedAt(r) /\ ArrivedKind(r) = "postcall"

\* the header carries a numeric timestamp more than 30 minutes before nowMs
MoreThan30MinutesOld(request, nowMs) ==
    LET ts == TimestampOf(request.header.parts)
    IN ts.kind = "num" /\ ts.secs * 1000 < nowMs - ToleranceMs

HasTimestamp(request) ==
    request.header.present /\ TimestampOf(request.header.parts).kind \in {"num", "nan"}

\* the header has a component that starts with prefix
HasComponent(request, prefix) ==
    /\ request.header.present
    /\ \E i \in DOMAIN request.header.parts : request.header.parts[i].prefix = prefix

HasSignature(request) == HasComponent(request, "v0=")

\* C11 as claimed: a request whose header carries a timestamp is answered 403
\* exactly when that timestamp is more than 30 minutes before the receipt time.
C11_ExpiredExactly ==
    [][\A r \in Reqs :
          (PostcallArrivedAt(r) /\ HasTimestamp(ArrivedReq(r))) =>
              (ArrivedStatus(r) = 403 <=> MoreThan30MinutesOld(ArrivedReq(r), clock))]_vars

\* C11 as amended: with a configured secret and a header that has both a
\* timestamp and a v0 component, the request is answered 403 exactly when the
\* timestamp is more than 30 minutes before the receipt time; a timestamp
\* exactly 30 minutes old, or in the future, is not rejected as expired.
C11_ExpiredExactlyWhenChecked ==
    [][\A r \in Reqs :
          (/\ PostcallArrivedAt(r)
           /\ ArrivedReq(r).secret # ""
           /\ HasTimestamp(ArrivedReq(r))
           /\ HasSignature(ArrivedReq(r))) =>
              (ArrivedStatus(r) = 403 <=> MoreThan30MinutesOld(ArrivedReq(r), clock))]_vars

\* a delivery whose timestamp was exactly 30 minutes old when it was received
\* has been stored and answered 200
C11_Witness ==
    /\ Quiescent
    /\ last.kind = "postcall"
    /\ last.status = 200
    /\ last.loc.stored
    /\ Len(postcall_transcriptions) > 0
    /\ TimestampOf(last.req.header.parts).kind = "num"
    /\ TimestampOf(last.req.header.parts).secs * 1000 =
          postcall_transcriptions[Len(postcall_transcriptions)].received_at - ToleranceMs

\* the signature header is absent, or has no "t=" component, or no "v0="
\* component
HeaderIncomplete(request) ==
    \/ ~request.header.present
    \/ ~HasComponent(request, "t=")
    \/ ~HasComponent(request, "v0=")

\* a step that receives a request writes to no store
NoStoreWrite ==
    /\ postcall_transcriptions' = postcall_transcriptions
    /\ robocall_tickets' = robocall_tickets

\* C12 as claimed: a request whose signature header is absent or lacks a
\* "t=" or a "v0=" component is answered 401, and nothing is stored.
C12_IncompleteHeader401 ==
    [][\A r \in Reqs :
          (PostcallArrivedAt(r) /\ HeaderIncomplete(ArrivedReq(r))) =>
              (ArrivedStatus(r) = 401 /\ NoStoreWrite)]_vars

\* C12 as amended: the same for a service with a configured secret; the
\* answer is 401 and not 403 also when the timestamp the header carries is
\* expired, and nothing is stored.
C12_IncompleteHeader401WithSecret ==
    [][\A r \in Reqs :
          (/\ PostcallArrivedAt(r)
           /\ ArrivedReq(r).secret # ""
           /\ HeaderIncomplete(ArrivedReq(r))) =>
              (ArrivedStatus(r) = 401 /\ NoStoreWrite)]_vars

\* a delivery to a service with a secret, with an expired timestamp and no
\* "v0=" component, was answered 401
C12_Witness ==
    /\ last.kind = "postcall"
    /\ last.status = 401
    /\ last.req.secret # ""
    /\ HasComponent(last.req, "t=")
    /\ ~HasComponent(last.req, "v0=")
    /\ MoreThan30MinutesOld(last.req, StartMs)
    /\ ~last.loc.stored

\* the request is authentic at nowMs: the header carries a timestamp that is
\* not expired and a v0 that is the HMAC, under the configured secret, of
\* that timestamp and the body received
Authentic(request, nowMs) ==
    /\ request.secret # ""
    /\ HasTimestamp(request)
    /\ HasSignature(request)
    /\ ~MoreThan30MinutesOld(request, nowMs)
    /\ LET parts == request.header.parts
           mac == parts[CHOOSE i \in DOMAIN parts : parts[i].prefix = "v0="].mac
       IN mac = Hmac(request.secret, TimestampOf(parts), request.body)

\* the body is no JSON text
InvalidJson(body) == JsonParse(Utf8Decode(body)) = 0

\* C13: with a configured secret, a request with an invalid-JSON body that is
\* not authentic is answered 401 or 403, never 400, and a 400 answer leaves
\* postcall_transcriptions and robocall_tickets unchanged.
C13_JsonCheckedLast ==
    [][\A r \in Reqs :
          (/\ PostcallArrivedAt(r)
           /\ ArrivedReq(r).secret # ""
           /\ InvalidJson(ArrivedReq(r).body)) =>
              /\ ~Authentic(ArrivedReq(r), clock) => ArrivedStatus(r) \in {401, 403}
              /\ ArrivedStatus(r) = 400 => NoStoreWrite]_vars

\* the statuses the webhook answers a request with when a check fails
FailureStatuses == {500, 401, 403, 400}

\* C14: a webhook request that fails verification (missing secret, missing or
\* malformed header, expired timestamp, digest mismatch, invalid JSON) leaves
\* postcall_transcriptions and robocall_tickets exactly as they were.
C14_FailureWritesNothing ==
    [][\A r \in Reqs :
          (PostcallArrivedAt(r) /\ ArrivedStatus(r) \in FailureStatuses) =>
              NoStoreWrite]_vars

\* both record sets hold a record, and the delivery answered last, one with a
\* fresh timestamp and a v0 component, failed its digest check
C14_Witness ==
    /\ Len(postcall_transcriptions) = 1
    /\ Len(robocall_tickets) = 1
    /\ last.kind = "postcall"
    /\ last.status = 401
    /\ last.req.secret # ""
    /\ HasTimestamp(last.req)
    /\ HasSignature(last.req)
    /\ ~last.loc.stored

\* the type of the event the body carries
TypeOf(body) == EventTable[JsonParse(Utf8Decode(body))].type

\* C15: an authentic request with a JSON body whose type is not a recognised
\* one is answered 200 and causes no write to postcall_transcriptions and no
\* create or update in robocall_tickets.
C15_UnknownTypeIgnored ==
    [][\A r \in Reqs :
          (/\ PostcallArrivedAt(r)
           /\ Authentic(ArrivedReq(r), clock)
           /\ ~InvalidJson(ArrivedReq(r).body)
           /\ TypeOf(ArrivedReq(r).body) # Transcription) =>
              /\ ArrivedStatus(r) = 200
              /\ pc'[r] = "idle"
              /\ NoStoreWrite]_vars

\* after a transcript event was stored and reconciled, an authentic delivery
\* of an event of an unknown type was answered 200 and left no trace
C15_Witness ==
    /\ Quiescent
    /\ Len(postcall_transcriptions) = 1
    /\ Len(robocall_tickets) = 1
    /\ last.kind = "postcall"
    /\ last.status = 200
    /\ last.loc.event # 0
    /\ EventTable[last.loc.event].type = "unknown_type"
    /\ ~last.loc.stored

\* C16: when the ticket-number allocation fails while the webhook handles an
\* authenticated transcript event, the webhook responds 500.
C16_AllocationFailure500 ==
    (last.kind = "postcall" /\ last.loc.stored /\ last.loc.threw) => last.status = 500

\* the handler of slot r completes create_robocall_ticket in this step
ReconcileCompletes(r) ==
    /\ kind[r] = "postcall"
    /\ pc[r] \in {"update", "insert"}
    /\ pc'[r] = "idle"

\* the key of the event slot r reconciles
EventKey(r) ==
    <<loc[r].norm.call_transcription.data.agent_id,
      loc[r].norm.call_transcription.data.conversation_id>>

\* C17: right after create_robocall_ticket completes for an event, a ticket
\* for the event's key exists with ticket_status "closed" and eval null,
\* whether it was created or updated, whatever it held before.
C17_ClosedAndPending ==
    [][\A r \in Reqs :
          ReconcileCompletes(r) =>
              \E i \in DOMAIN robocall_tickets' :
                  /\ KeyOf(robocall_tickets'[i]) = EventKey(r)
                  /\ robocall_tickets'[i].ticket_status = "closed"
                  /\ robocall_tickets'[i].eval = Null
                  /\ pc[r] = "update" => i = loc[r].existing
                  /\ pc[r] = "insert" => i = Len(robocall_tickets) + 1]_vars

\* a ticket that was created open, without eval, by the manual route has been
\* updated by the reconciler and is now closed and pending evaluation
C17_Witness ==
    /\ last.kind = "postcall"
    /\ last.status = 200
    /\ last.loc.existing # 0
    /\ last.loc.existing \in Tickets
    /\ LET t == robocall_tickets[last.loc.existing]
       IN /\ t.created_at # NoTime
          /\ ReconcilerWrote(t)
          /\ t.ticket_status = "closed"
          /\ t.eval = Null

\* C18: every ticket has created_at set from the moment it is created, on
\* every creation path, and every ticket that was mutated since (by the
\* reconciler or by a status update) has updated_at set.
C18_StampsAlwaysSet ==
    \A i \in Tickets :
        /\ robocall_tickets[i].created_at # NoTime
        /\ (ReconcilerWrote(robocall_tickets[i]) /\ robocall_tickets[i].created_at # NoTime)
              => robocall_tickets[i].updated_at # NoTime

\* What create_robocall_ticket returns to the webhook, app.js:891 and 908: the
\* ticket_number, a string, that the handler holds when it completes.
Returned(l) == [type |-> "string", value |-> l.ticket_number]

\* C19: create_robocall_ticket returns the full resulting ticket record, equal
\* to the ticket held in the store right after the write, in the found and in
\* the not-found branch.
C19_ReturnsFullRecord ==
    [][\A r \in Reqs :
          ReconcileCompletes(r) =>
              LET written == IF pc[r] = "update" THEN loc[r].existing
                             ELSE Len(robocall_tickets) + 1
              IN /\ Returned(last'.loc).type = "object"
                 /\ Returned(last'.loc).value = robocall_tickets'[written]]_vars

\* slot r receives a status update in this step
StatusArrivedAt(r) == ArrivedAt(r) /\ ArrivedKind(r) = "status"

\* C20: a status update changes only ticket_status and updated_at of the
\* matched ticket; its eval, ticket_number, subject, category, customer_name,
\* priority and call_transcription, and every other ticket, are unchanged.
C20_StatusUpdateFrame ==
    [][\A r \in Reqs :
          StatusArrivedAt(r) =>
              /\ Len(robocall_tickets') = Len(robocall_tickets)
              /\ ArrivedStatus(r) # 200 => robocall_tickets' = robocall_tickets
              /\ ArrivedStatus(r) = 200 =>
                    \E m \in Tickets :
                        /\ m = last'.loc.existing
                        /\ robocall_tickets'[m] =
                              [robocall_tickets[m] EXCEPT
                                  !.ticket_status = ArrivedReq(r).ticket_status,
                                  !.updated_at = clock]
                        /\ \A i \in Tickets \ {m} :
                              robocall_tickets'[i] = robocall_tickets[i]]_vars

\* the request answered last is a status update that matched a ticket, and
\* that ticket carries the new status next to an evaluation result
C20_Witness ==
    /\ last.kind = "status"
    /\ last.status = 200
    /\ last.loc.existing \in Tickets
    /\ LET t == robocall_tickets[last.loc.existing]
       IN /\ t.ticket_status = last.req.ticket_status
          /\ t.updated_at # NoTime
          /\ t.eval = "scored"
          /\ t.subject # ""

\* text with every whitespace character removed
WithoutWhitespace(text) == SelectSeq(text, LAMBDA c : c \notin {" ", "\t", "\n"})

\* the characters of the agent_id the tickets of agent1 carry
AgentOneChars == <<"a", "g", "e", "n", "t", "1">>

\* the tickets a status update for number and agent1 is meant to reach
TicketsOfAgentOne(number) ==
    { i \in Tickets :
        /\ robocall_tickets[i].ticket_number = WithoutWhitespace(number)
        /\ robocall_tickets[i].call_transcription.data.agent_id = "agent1" }

\* C21: a status update that carries the ticket_number of a ticket of agent A
\* and agent_id = A matches the ticket and updates its ticket_status (it is
\* not answered 404); with another agent_id it is answered 404 and changes
\* nothing.
C21_AgentFilter ==
    [][\A r \in Reqs :
          (/\ StatusArrivedAt(r)
           /\ ArrivedReq(r).ticket_number # NoNumber
           /\ ArrivedReq(r).agent_id # NoNumber) =>
              IF /\ WithoutWhitespace(ArrivedReq(r).agent_id) = AgentOneChars
                 /\ TicketsOfAgentOne(ArrivedReq(r).ticket_number) # {}
              THEN /\ ArrivedStatus(r) = 200
                   /\ \E i \in TicketsOfAgentOne(ArrivedReq(r).ticket_number) :
                         robocall_tickets'[i].ticket_status = ArrivedReq(r).ticket_status
              ELSE /\ ArrivedStatus(r) = 404
                   /\ robocall_tickets' = robocall_tickets]_vars

\* slot r receives a status lookup in this step
LookupArrivedAt(r) == ArrivedAt(r) /\ ArrivedKind(r) = "lookup"

\* the first ticket that carries number, 0 if none does
TicketNumbered(number) ==
    IF \E i \in Tickets : robocall_tickets[i].ticket_number = number
    THEN CHOOSE i \in Tickets :
            /\ robocall_tickets[i].ticket_number = number
            /\ \A j \in Tickets : robocall_tickets[j].ticket_number = number => i <= j
    ELSE 0

\* C22: on the status and update-status routes a ticket_number with
\* whitespace in it is looked up as the same value with all whitespace
\* removed: the request finds, or updates, exactly the ticket the
\* whitespace-free value designates, and is answered 404 when there is none.
C22_WhitespaceStripped ==
    [][\A r \in Reqs :
          /\ (LookupArrivedAt(r) /\ ArrivedReq(r).ticket_number # NoNumber) =>
                LET t == TicketNumbered(WithoutWhitespace(ArrivedReq(r).ticket_number))
                IN IF t = 0 THEN ArrivedStatus(r) = 404
                   ELSE /\ ArrivedStatus(r) = 200
                        /\ last'.loc.existing = t
                        /\ last'.body.ticket_number = robocall_tickets[t].ticket_number
                        /\ last'.body.ticket_status = robocall_tickets[t].ticket_status
          /\ (StatusArrivedAt(r) /\ ArrivedReq(r).ticket_number # NoNumber) =>
                LET t == TicketNumbered(WithoutWhitespace(ArrivedReq(r).ticket_number))
                IN IF t = 0 THEN ArrivedStatus(r) = 404
                   ELSE /\ ArrivedStatus(r) \in {200, 404}
                        /\ ArrivedReq(r).agent_id = NoNumber => ArrivedStatus(r) = 200
                        /\ ArrivedStatus(r) = 200 =>
                              /\ last'.loc.existing = t
                              /\ robocall_tickets'[t].ticket_status =
                                    ArrivedReq(r).ticket_status]_vars

\* a lookup whose ticket_number had whitespace inside it found the ticket
\* that carries the number without the whitespace
C22_Witness ==
    /\ last.kind = "lookup"
    /\ last.status = 200
    /\ Len(last.req.ticket_number) > Len(WithoutWhitespace(last.req.ticket_number)) + 1
    /\ last.loc.existing \in Tickets
    /\ robocall_tickets[last.loc.existing].ticket_number =
          WithoutWhitespace(last.req.ticket_number)

\* slot r receives a manual creation in this step
ManualArrivedAt(r) == ArrivedAt(r) /\ ArrivedKind(r) = "manual"

\* the handler of a manual creation at slot r ends in this step
ManualEnds(r) == kind[r] = "manual" /\ pc[r] # "idle" /\ pc'[r] = "idle"

Missing(v) == v \in {"undefined", "null", ""}

MandatoryMissing(body) ==
    Missing(body.subject) \/ Missing(body.agent_id) \/ Missing(body.conversation_id)

\* what the claim has the inserted ticket hold
IsManualTicket(t, number, body) ==
    /\ t.ticket_number = number
    /\ t.ticket_status = "open"
    /\ t.subject = body.subject
    /\ t.priority = (IF Missing(body.priority) THEN "low" ELSE body.priority)
    /\ t.call_transcription.minimal
    /\ t.call_transcription.data.agent_id = body.agent_id
    /\ t.call_transcription.data.conversation_id = body.conversation_id
    /\ t.call_transcription.data.transcript = <<>>
    /\ t.call_transcription.data.received_at = -1

\* C23 as claimed: manual creation answers 400 and inserts nothing when
\* subject, agent_id or conversation_id is missing; otherwise it inserts
\* exactly one ticket, with a freshly allocated ticket_number, ticket_status
\* "open", priority defaulting to "low" and a call_transcription of agent_id
\* and conversation_id only, and answers 201.
C23_ManualCreation ==
    [][\A r \in Reqs :
          /\ ManualArrivedAt(r) =>
                /\ robocall_tickets' = robocall_tickets
                /\ ArrivedStatus(r) = (IF MandatoryMissing(ArrivedReq(r)) THEN 400 ELSE 0)
          /\ (kind[r] = "manual" /\ pc[r] # "idle" /\ pc'[r] # "idle") =>
                robocall_tickets' = robocall_tickets
          /\ ManualEnds(r) =>
                /\ last'.status = 201
                /\ Len(robocall_tickets') = Len(robocall_tickets) + 1
                /\ SubSeq(robocall_tickets', 1, Len(robocall_tickets)) = robocall_tickets
                /\ last'.loc.ticket_number \in DrawOutcomes
                /\ ~last'.loc.exists
                /\ IsManualTicket(robocall_tickets'[Len(robocall_tickets')],
                                  last'.loc.ticket_number, last'.req)]_vars

\* C23 as amended: the same, except that when the allocation of the
\* ticket_number fails (all 5 candidates are taken) the request is answered
\* 500 and nothing is inserted.
C23_ManualCreationUnlessExhausted ==
    [][\A r \in Reqs :
          /\ ManualArrivedAt(r) =>
                /\ robocall_tickets' = robocall_tickets
                /\ ArrivedStatus(r) = (IF MandatoryMissing(ArrivedReq(r)) THEN 400 ELSE 0)
          /\ (kind[r] = "manual" /\ pc[r] # "idle" /\ pc'[r] # "idle") =>
                robocall_tickets' = robocall_tickets
          /\ ManualEnds(r) =>
                IF last'.loc.tries = 5 /\ last'.loc.exists
                THEN /\ last'.status = 500
                     /\ robocall_tickets' = robocall_tickets
                ELSE /\ last'.status = 201
                     /\ Len(robocall_tickets') = Len(robocall_tickets) + 1
                     /\ SubSeq(robocall_tickets', 1, Len(robocall_tickets)) = robocall_tickets
                     /\ last'.loc.ticket_number \in DrawOutcomes
                     /\ ~last'.loc.exists
                     /\ IsManualTicket(robocall_tickets'[Len(robocall_tickets')],
                                       last'.loc.ticket_number, last'.req)]_vars

\* a manual creation that gave a priority and one that gave none have both
\* been answered 201, and their tickets are the two in the record set
C23_Witness ==
    /\ last.kind = "manual"
    /\ last.status = 201
    /\ Len(robocall_tickets) = 2
    /\ \A i \in Tickets :
          /\ robocall_tickets[i].created_at # NoTime
          /\ robocall_tickets[i].ticket_status = "open"
    /\ robocall_tickets[1].ticket_number # robocall_tickets[2].ticket_number
    /\ {robocall_tickets[1].priority, robocall_tickets[2].priority} = {"low", "high"}

\* a ticket the reconciler inserted (closed) that a status update has set
\* back to "open"
Reopened(t) == ReconcilerInserted(t) /\ t.ticket_status = "open"

\* C24: per (agent_id, conversation_id) key the lifecycle only moves forward
\* from absent: no step removes a ticket or takes a key's ticket away, and
\* when a transcript event has been processed for a key, every ticket of the
\* key that a status update had re-opened is "closed" again.
C24_LifecycleForward ==
    [][/\ Len(robocall_tickets') >= Len(robocall_tickets)
       /\ \A i \in Tickets : KeyOf(robocall_tickets'[i]) = KeyOf(robocall_tickets[i])
       /\ \A r \in Reqs :
             ReconcileCompletes(r) =>
                 \A i \in Tickets :
                     (KeyOf(robocall_tickets[i]) = EventKey(r) /\ Reopened(robocall_tickets[i]))
                     => robocall_tickets'[i].ticket_status = "closed"]_vars

\* the event an authentic delivery carries
EventOf(request) == EventTable[JsonParse(Utf8Decode(request.body))]

\* an authentic delivery of an audio event
AudioDelivery(request, nowMs) ==
    /\ Authentic(request, nowMs)
    /\ ~InvalidJson(request.body)
    /\ EventOf(request).type = "post_call_audio"

EventKeyOf(request) ==
    <<DataOf(EventOf(request)).agent_id, DataOf(EventOf(request)).conversation_id>>

\* the ticket holds what a transcript event wrote and an audio_url
HasTranscriptAndAudio(t) ==
    /\ ReconcilerWrote(t)
    /\ "audio_url" \in DOMAIN t.call_transcription.data

\* C25: for a transcript event and an audio event of one key, processed in
\* either order, the ticket of the key holds the transcript fields and the
\* audio_url once both have been processed: when the audio event is answered
\* after the transcript event wrote the ticket, and when the transcript event
\* is reconciled right after the audio event was answered.
C25_TranscriptAndAudioConverge ==
    [][\A r \in Reqs :
          /\ (/\ PostcallArrivedAt(r)
              /\ AudioDelivery(ArrivedReq(r), clock)
              /\ pc'[r] = "idle"
              /\ \E i \in Tickets :
                    /\ KeyOf(robocall_tickets[i]) = EventKeyOf(ArrivedReq(r))
                    /\ ReconcilerWrote(robocall_tickets[i]))
             => \E i \in DOMAIN robocall_tickets' :
                    /\ KeyOf(robocall_tickets'[i]) = EventKeyOf(ArrivedReq(r))
                    /\ HasTranscriptAndAudio(robocall_tickets'[i])
          /\ (/\ ReconcileCompletes(r)
              /\ last.kind = "postcall"
              /\ last.status = 200
              /\ AudioDelivery(last.req, clock)
              /\ EventKeyOf(last.req) = EventKey(r))
             => \E i \in DOMAIN robocall_tickets' :
                    /\ KeyOf(robocall_tickets'[i]) = EventKey(r)
                    /\ HasTranscriptAndAudio(robocall_tickets'[i])]_vars

\* slot r receives a pending-evaluation query in this step
PendingArrivedAt(r) == ArrivedAt(r) /\ ArrivedKind(r) = "pending"

\* C26: the pending-evaluation query returns only tickets whose eval is null:
\* every ticket of the page it answers with is a stored ticket without an
\* evaluation result, so a ticket whose eval was written is not returned
\* (until a reconciliation resets its eval to null).
C26_PendingOnly ==
    [][\A r \in Reqs :
          PendingArrivedAt(r) =>
              /\ ArrivedStatus(r) = 200
              /\ \A k \in DOMAIN last'.body :
                    /\ last'.body[k].eval # "scored"
                    /\ \E i \in Tickets :
                          /\ robocall_tickets[i] = last'.body[k]
                          /\ robocall_tickets[i].eval \in {"null", "undefined"}]_vars

\* the query answered with a page holding the one ticket that is pending,
\* while the other ticket, whose evaluation was written back, is left out
C26_Witness ==
    /\ last.kind = "pending"
    /\ last.status = 200
    /\ Len(robocall_tickets) = 2
    /\ robocall_tickets[1].eval = "scored"
    /\ robocall_tickets[2].eval = "null"
    /\ last.body = <<robocall_tickets[2]>>

\* the handler of a stored delivery at slot r answers in this step
StoredDeliveryAnswered(r) ==
    kind[r] = "postcall" /\ pc[r] # "idle" /\ pc'[r] = "idle" /\ loc[r].stored

\* an evaluation result is written onto a ticket in this step
EvalWritten ==
    \E i \in Tickets : robocall_tickets[i].eval # "scored" /\ robocall_tickets'[i].eval = "scored"

\* C27: the evaluation never changes the webhook's response: a transcript
\* event whose raw record was stored is answered 200, a write-back of the
\* evaluation touches no handler and no response, and the handler of a stored
\* event gets to its response whether or not the evaluation ever returns.
C27_EvalNeverChangesResponse ==
    /\ [][/\ \A r \in Reqs : StoredDeliveryAnswered(r) => last'.status = 200
          /\ EvalWritten => UNCHANGED <<pc, kind, req, loc, last, postcall_transcriptions>>]_vars
    /\ \A r \in Reqs :
          (kind[r] = "postcall" /\ pc[r] # "idle" /\ loc[r].stored)
              ~> (pc[r] = "idle" /\ last.status = 200)

\* a stored transcript event has been answered 200 while the ticket it wrote
\* is still pending evaluation, next to a ticket whose evaluation was written
C27_Witness ==
    /\ last.kind = "postcall"
    /\ last.loc.stored
    /\ last.status = 200
    /\ Len(robocall_tickets) = 2
    /\ robocall_tickets[1].eval = "scored"
    /\ robocall_tickets[2].eval = "null"
    /\ ReconcilerWrote(robocall_tickets[2])

\* C28: the webhook answers 200 for a transcript event only after the event's
\* raw record is in postcall_transcriptions, and it answers as soon as that
\* insert completes: the step that stores the record is the step that
\* answers, with no reconciliation in between.
C28_AnswersOnceStored ==
    [][\A r \in Reqs :
          /\ (kind'[r] = "postcall" /\ pc'[r] = "idle" /\ pc[r] # "idle" /\ last'.status = 200)
                => last'.loc.stored
          /\ (PostcallArrivedAt(r) /\ Len(postcall_transcriptions') > Len(postcall_transcriptions))
                => (pc'[r] = "idle" /\ last'.status = 200)]_vars

\* slot r receives a listing in this step
ListArrivedAt(r) == ArrivedAt(r) /\ ArrivedKind(r) = "list"

\* the ticket is of the agent: nested or top-level agent_id
OfAgent(t, agent) ==
    \/ t.call_transcription.data.agent_id = agent
    \/ t.agent_id # <<>> /\ t.agent_id = agent

\* C29: GET /api/robocall-tickets with a ticket_number query parameter
\* returns only tickets whose ticket_number equals it, and of these only the
\* tickets of the agent when agent_id is given too.
C29_ListByNumber ==
    [][\A r \in Reqs :
          (ListArrivedAt(r) /\ ArrivedReq(r).ticket_number # "undefined") =>
              /\ ArrivedStatus(r) = 200
              /\ \A k \in DOMAIN last'.body :
                    /\ last'.body[k].ticket_number = ArrivedReq(r).ticket_number
                    /\ ArrivedReq(r).agent_id # "undefined" =>
                          OfAgent(last'.body[k], ArrivedReq(r).agent_id)]_vars

\* slot r receives a POST /webhook/ticket in this step
TicketArrivedAt(r) == ArrivedAt(r) /\ ArrivedKind(r) = "ticket"

\* C30: POST /webhook/ticket with a non-empty subject inserts exactly one
\* ticket into the tickets record set, with a freshly allocated ticket_number
\* and status defaulting to "open", and answers 201; with subject missing it
\* answers 400 and inserts nothing.
C30_TicketCreated ==
    [][\A r \in Reqs :
          /\ TicketArrivedAt(r) =>
                /\ tickets' = tickets
                /\ ArrivedStatus(r) =
                      (IF ArrivedReq(r).subject \in {"undefined", "null", ""} THEN 400 ELSE 0)
          /\ (kind[r] = "ticket" /\ pc[r] # "idle" /\ pc'[r] = "idle") =>
                /\ last'.status = 201
                /\ Len(tickets') = Len(tickets) + 1
                /\ SubSeq(tickets', 1, Len(tickets)) = tickets
                /\ tickets'[Len(tickets')].ticket_number = last'.loc.ticket_number
                /\ tickets'[Len(tickets')].subject = last'.req.subject
                /\ tickets'[Len(tickets')].status =
                      (IF last'.req.status \in {"undefined", "null", ""}
                       THEN "open" ELSE last'.req.status)]_vars

\* create_robocall_ticket throws in the handler of slot r in this step
ReconcileThrows(r) ==
    kind[r] = "postcall" /\ pc[r] = "generate" /\ pc'[r] = "idle" /\ last'.loc.threw

\* the handler of slot r takes a step of create_robocall_ticket before any write
ReconcileReads(r) ==
    /\ kind[r] = "postcall"
    /\ pc[r] \in {"reconcile", "generate"}
    /\ <<pc'[r], loc'[r]>> # <<pc[r], loc[r]>>

\* C31: when create_robocall_ticket throws after the raw event was stored
\* (the allocation of the ticket number is exhausted), the webhook answers
\* 200, the raw record stays in postcall_transcriptions, and the handler has
\* written nothing to robocall_tickets: none of its steps up to and including
\* the throw changes the tickets.
C31_ThrowLeavesNoTicket ==
    [][\A r \in Reqs :
          /\ ReconcileThrows(r) =>
                /\ last'.status = 200
                /\ last'.loc.stored
                /\ postcall_transcriptions' = postcall_transcriptions
                /\ \E k \in DOMAIN postcall_transcriptions' :
                      postcall_transcriptions'[k].event = last'.loc.event
          /\ ReconcileReads(r) => robocall_tickets' = robocall_tickets]_vars

\* the second delivery, for another key, was stored, drew the one taken
\* ticket number five times, and was answered 200 with one ticket as before
C31_Witness ==
    /\ last.kind = "postcall"
    /\ last.loc.threw
    /\ last.loc.stored
    /\ last.status = 200
    /\ Len(postcall_transcriptions) = 2
    /\ Len(robocall_tickets) = 1
    /\ postcall_transcriptions[2].event = last.loc.event

\* the fields the event of slot r carries, nested or at the top level
Payload(r) == IF req[r].hasData THEN req[r].data ELSE req[r].top

Normalized(r) == pc[r] = "normalized"

\* analysis.data_collection_results.<field>.value is absent at some level
PathAbsent(analysis, value) ==
    ~analysis.present \/ ~analysis.dcr \/ value \in {"undefined", "null"}

\* absent, or present and empty
PathEmpty(analysis, value) == PathAbsent(analysis, value) \/ value = ""

\* C32 as claimed: the normalised priority is "low" whenever analysis,
\* data_collection_results, the priority entry or its value is absent, subject,
\* category and customer_name are "" under the same conditions, and a value
\* that is present is copied unchanged.
C32_DefaultsWhenAbsent ==
    \A r \in Reqs :
        Normalized(r) =>
            LET a == Payload(r).analysis
                n == loc[r].norm
            IN /\ n.priority = (IF PathAbsent(a, a.priority) THEN "low" ELSE a.priority)
               /\ n.subject = (IF PathAbsent(a, a.subject) THEN "" ELSE a.subject)
               /\ n.category = (IF PathAbsent(a, a.category) THEN "" ELSE a.category)
               /\ n.customer_name =
                     (IF PathAbsent(a, a.customer_name) THEN "" ELSE a.customer_name)

\* C32 as amended: the same, with a priority value that is present but the
\* empty string normalised to "low" too; a value that is present and not
\* empty is copied unchanged.
C32_DefaultsWhenAbsentOrEmpty ==
    \A r \in Reqs :
        Normalized(r) =>
            LET a == Payload(r).analysis
                n == loc[r].norm
            IN /\ n.priority = (IF PathEmpty(a, a.priority) THEN "low" ELSE a.priority)
               /\ n.subject = (IF PathEmpty(a, a.subject) THEN "" ELSE a.subject)
               /\ n.category = (IF PathEmpty(a, a.category) THEN "" ELSE a.category)
               /\ n.customer_name =
                     (IF PathEmpty(a, a.customer_name) THEN "" ELSE a.customer_name)

\* an event whose collected subject is "s1" and whose priority entry has no
\* value was normalised to subject "s1", priority "low"
C32_Witness ==
    \E r \in Reqs :
        /\ Normalized(r)
        /\ Payload(r).analysis.dcr
        /\ Payload(r).analysis.subject = "s1"
        /\ Payload(r).analysis.priority = "undefined"
        /\ loc[r].norm.subject = "s1"
        /\ loc[r].norm.priority = "low"
        /\ loc[r].norm.customer_name = ""

\* the number is there: not null, not absent
NonNull(n) == n # -1

\* C33 as claimed: event_timestamp is metadata.start_time_unix_secs whenever
\* that is non-null, 0 included; otherwise metadata.accepted_time_unix_secs
\* whenever that is non-null, 0 included; otherwise the current time in
\* seconds.
C33_FirstNonNull ==
    \A r \in Reqs :
        Normalized(r) =>
            LET m == Payload(r).metadata
            IN loc[r].norm.call_transcription.event_timestamp =
                  (IF m.present /\ NonNull(m.start_time_unix_secs)
                   THEN m.start_time_unix_secs
                   ELSE IF m.present /\ NonNull(m.accepted_time_unix_secs)
                   THEN m.accepted_time_unix_secs
                   ELSE clock \div 1000)

\* C33 as amended: event_timestamp is the start time whenever that is non-null
\* and not 0; otherwise the accepted time whenever that is non-null and not 0;
\* otherwise the current time in seconds.
C33_FirstNonZero ==
    \A r \in Reqs :
        Normalized(r) =>
            LET m == Payload(r).metadata
            IN loc[r].norm.call_transcription.event_timestamp =
                  (IF m.present /\ NonNull(m.start_time_unix_secs)
                                /\ m.start_time_unix_secs # 0
                   THEN m.start_time_unix_secs
                   ELSE IF m.present /\ NonNull(m.accepted_time_unix_secs)
                                     /\ m.accepted_time_unix_secs # 0
                   THEN m.accepted_time_unix_secs
                   ELSE clock \div 1000)

\* an event without a start time and with an accepted time was given the
\* accepted time
C33_Witness ==
    \E r \in Reqs :
        /\ Normalized(r)
        /\ Payload(r).metadata.present
        /\ Payload(r).metadata.start_time_unix_secs = -1
        /\ Payload(r).metadata.accepted_time_unix_secs = 1650
        /\ loc[r].norm.call_transcription.event_timestamp = 1650

\* the stored turn has the four fields, with the values of the input turn
SameTurn(stored, turn) ==
    /\ DOMAIN stored = {"role", "message", "time_in_call_secs", "interrupted"}
    /\ stored.role = turn.role
    /\ stored.message = turn.message
    /\ stored.time_in_call_secs = turn.time_in_call_secs
    /\ stored.interrupted = turn.interrupted

\* C34: the stored transcript has the length and the order of the event's
\* transcript, each stored turn has exactly the fields role, message,
\* time_in_call_secs and interrupted with the input turn's values, and a
\* transcript that is not a sequence is stored as the empty sequence.
C34_TranscriptCleaned ==
    \A r \in Reqs :
        Normalized(r) =>
            LET t == Payload(r).transcript
                stored == loc[r].norm.call_transcription.data.transcript
            IN IF t.isArray
               THEN /\ Len(stored) = Len(t.turns)
                    /\ \A i \in DOMAIN t.turns : SameTurn(stored[i], t.turns[i])
               ELSE stored = <<>>

\* a transcript of three turns carrying other fields was stored as three
\* turns in the same order, and the second is the user's
C34_Witness ==
    \E r \in Reqs :
        /\ Normalized(r)
        /\ Payload(r).transcript.isArray
        /\ Len(Payload(r).transcript.turns) = 3
        /\ "extra" \in DOMAIN Payload(r).transcript.turns[2]
        /\ Len(loc[r].norm.call_transcription.data.transcript) = 3
        /\ loc[r].norm.call_transcription.data.transcript[2].role = "user"
        /\ loc[r].norm.call_transcription.data.transcript[2].time_in_call_secs = 3

\* C35: an event that carries its fields under a data key and an event that
\* carries the same fields at the top level reconcile to the same ticket: the
\* same lookup key, subject, category, customer_name, priority and
\* call_transcription.
C35_NestedAndFlatAgree ==
    \A r, q \in Reqs :
        (/\ Normalized(r) /\ Normalized(q)
         /\ req[r].hasData /\ ~req[q].hasData
         /\ req[r].data = req[q].top) =>
            LET n == loc[r].norm
                m == loc[q].norm
            IN /\ n.call_transcription.data.agent_id = m.call_transcription.data.agent_id
               /\ n.call_transcription.data.conversation_id =
                     m.call_transcription.data.conversation_id
               /\ n.call_transcription.data.agent_id = req[q].top.agent_id
               /\ n.subject = m.subject
               /\ n.category = m.category
               /\ n.customer_name = m.customer_name
               /\ n.priority = m.priority
               /\ n.call_transcription = m.call_transcription

\* the nested and the flat event, both with a collected subject and three
\* turns, were both normalised, to the subject "s1" and the key agent1/conv1
C35_Witness ==
    /\ Normalized(1) /\ Normalized(2)
    /\ req[1].hasData /\ ~req[2].hasData
    /\ req[1].data = req[2].top
    /\ req[2].top.analysis.subject = "s1"
    /\ loc[1].norm.subject = "s1"
    /\ loc[2].norm.subject = "s1"
    /\ loc[2].norm.call_transcription.data.agent_id = "agent1"
    /\ Len(loc[2].norm.call_transcription.data.transcript) = 3

\* the v0 the header carries: that of its first "v0=" component
SentV0(request) ==
    LET parts == request.header.parts
        at == CHOOSE i \in DOMAIN parts :
                 /\ parts[i].prefix = "v0="
                 /\ \A j \in 1..(i - 1) : parts[j].prefix # "v0="
    IN parts[at].mac

\* the digest check as the webhook evaluates it: the v0 against the HMAC of
\* the timestamp and the body read as UTF-8 text
DigestCheckPasses(request) ==
    SentV0(request) =
        [key |-> request.secret, ts |-> TimestampOf(request.header.parts),
         msg |-> Utf8Encode(Utf8Decode(request.body))]

\* the status the first failing check answers with; 0 when none fails
FirstFailure(request, nowMs) ==
    IF request.secret = "" THEN 500
    ELSE IF ~request.header.present THEN 401
    ELSE IF ~(HasTimestamp(request) /\ HasComponent(request, "v0=")) THEN 401
    ELSE IF MoreThan30MinutesOld(request, nowMs) THEN 403
    ELSE IF ~DigestCheckPasses(request) THEN 401
    ELSE IF InvalidJson(request.body) THEN 400
    ELSE 0

\* C36: the webhook evaluates its checks in a fixed order (secret configured,
\* header present, header has t= and v0=, timestamp not expired, digest
\* matches, body parses as JSON) and the first failing check alone determines
\* the response; when none fails the request is not answered with a failure.
C36_FirstFailingCheckDecides ==
    [][\A r \in Reqs :
          PostcallArrivedAt(r) =>
              IF FirstFailure(ArrivedReq(r), clock) # 0
              THEN /\ ArrivedStatus(r) = FirstFailure(ArrivedReq(r), clock)
                   /\ NoStoreWrite
              ELSE ArrivedStatus(r) \in {0, 200}]_vars

\* a delivery to a service with a secret, whose timestamp is expired and
\* whose v0 was made with another key, was answered 403
C36_Witness ==
    /\ last.kind = "postcall"
    /\ last.status = 403
    /\ last.req.secret # ""
    /\ HasComponent(last.req, "v0=")
    /\ MoreThan30MinutesOld(last.req, StartMs)
    /\ SentV0(last.req).key = "other"
    /\ ~last.loc.stored

\* the tickets of coll that carry the key
KeyTickets(coll, key) == { i \in DOMAIN coll : KeyOf(coll[i]) = key }

\* C37: a manual creation for a key followed by a transcript event for the
\* same key leaves exactly one ticket for the key, with the manually allocated
\* ticket_number and ticket_status "closed"; a transcript event followed by a
\* manual creation for the same key leaves exactly one ticket for the key too.
C37_ManualAndTranscriptOneTicket ==
    [][\A r \in Reqs :
          /\ (/\ ReconcileCompletes(r)
              /\ \E i \in Tickets :
                    /\ KeyTickets(robocall_tickets, EventKey(r)) = {i}
                    /\ robocall_tickets[i].call_transcription.minimal)
             => \E i \in Tickets :
                    /\ KeyTickets(robocall_tickets', EventKey(r)) = {i}
                    /\ robocall_tickets'[i].ticket_number = robocall_tickets[i].ticket_number
                    /\ robocall_tickets'[i].ticket_status = "closed"
          /\ (/\ ManualEnds(r)
              /\ last'.status = 201
              /\ \E i \in Tickets :
                    /\ KeyTickets(robocall_tickets,
                                  <<req[r].agent_id, req[r].conversation_id>>) = {i}
                    /\ ReconcilerWrote(robocall_tickets[i]))
             => Cardinality(KeyTickets(robocall_tickets',
                                       <<req[r].agent_id, req[r].conversation_id>>)) = 1]_vars

\* the handler of slot r writes to robocall_tickets for its event in this step
ReconcileWrites(r) ==
    /\ kind[r] = "postcall"
    /\ pc[r] \in {"update", "insert"}
    /\ pc'[r] # pc[r]

WebhookStatuses == {200, 400, 401, 403, 500}

\* the handler of slot r takes a step and is still serving its request
StepsOn(r) ==
    /\ kind[r] = "postcall"
    /\ pc[r] # "idle"
    /\ pc'[r] # "idle"
    /\ <<pc'[r], loc'[r]>> # <<pc[r], loc[r]>>

\* C39: every request to the webhook receives exactly one response, with a
\* status in {200, 400, 401, 403, 500}, provided every store operation it
\* awaits returns or fails: the request is answered on receipt or by the step
\* that ends its handler, no step before that sends a response, and every
\* handler ends.
C39_ExactlyOneResponse ==
    /\ [][\A r \in Reqs :
             /\ (PostcallArrivedAt(r) /\ pc'[r] = "idle") =>
                   /\ last'.req = ArrivedReq(r)
                   /\ last'.status \in WebhookStatuses
             /\ (kind[r] = "postcall" /\ pc[r] # "idle" /\ pc'[r] = "idle") =>
                   /\ last'.kind = "postcall"
                   /\ last'.req = req[r]
                   /\ last'.status \in WebhookStatuses
             /\ (StepsOn(r) \/ (PostcallArrivedAt(r) /\ pc'[r] # "idle")) => last' = last]_vars
    /\ \A r \in Reqs : (kind[r] = "postcall" /\ pc[r] # "idle") ~> (pc[r] = "idle")

\* a delivery whose raw record was stored was answered 200 after a store
\* operation of its reconciliation had failed on the first try for a number
C39_Witness ==
    /\ last.kind = "postcall"
    /\ last.status = 200
    /\ last.loc.stored
    /\ last.loc.threw
    /\ last.loc.tries = 0
    /\ Len(postcall_transcriptions) = 1
    /\ Len(robocall_tickets) = 0

\* the raw records of event k
RawRecords(k) ==
    { i \in DOMAIN postcall_transcriptions : postcall_transcriptions[i].event = k }

\* C40: each authenticated transcript event the webhook accepts adds exactly
\* one record to postcall_transcriptions, and however many times an event was
\* delivered, robocall_tickets holds a single ticket for its key once the
\* deliveries have been handled.
C40_OneRawRecordEachOneTicket ==
    /\ [][\A r \in Reqs :
             PostcallArrivedAt(r) =>
                 IF /\ Authentic(ArrivedReq(r), clock)
                    /\ ~InvalidJson(ArrivedReq(r).body)
                    /\ TypeOf(ArrivedReq(r).body) = "post_call_transcription"
                 THEN postcall_transcriptions' =
                         Append(postcall_transcriptions,
                                [event |-> JsonParse(Utf8Decode(ArrivedReq(r).body)),
                                 received_at |-> clock])
                 ELSE postcall_transcriptions' = postcall_transcriptions]_vars
    /\ [](Quiescent =>
             \A k \in EventIds :
                 RawRecords(k) # {} =>
                     Cardinality(KeyTickets(robocall_tickets,
                                            <<DataOf(EventTable[k]).agent_id,
                                              DataOf(EventTable[k]).conversation_id>>)) = 1)

====
